---- MODULE Spec2Model ----
(***************************************************************************)
(* Release lifecycle of sdlccp: the runtime tagged-union SDLCRelease       *)
(* record of src/src/model/sdlc_release.rs and its guarded transition      *)
(* methods.  Every method is a pure operator from a record (and its        *)
(* arguments) to the record it leaves behind and the Result it returns;    *)
(* the actions call the methods on the record under management.            *)
(***************************************************************************)
EXTENDS Integers, Sequences, FiniteSets, TLC

\* ------------------------------------------------------------------ bounds
\* add_dependency is called at most MaxDeps times on a record.
MaxDeps == 1
\* A record that was not created by SDLCRelease::new is followed for at most
\* MaxLoadedSteps successful transitions.
MaxLoadedSteps == 2
\* A policy holds at most MaxRules rules and an attestation at most MaxSigs
\* signatures; instants of the policy checks are 0..MaxClock.
MaxRules == 2
MaxSigs == 2
MaxClock == 1
\* A deployed release carries at most MaxVulns vulnerabilities.
MaxVulns == 2
\* The directory's nodes live in at most MaxNodes allocations, and readers
\* hold at most MaxHeld subtrees returned by drill_down.
MaxNodes == 6
MaxHeld == 1
\* The attestation store is followed for MaxStores store_attestation calls.
MaxStores == 3

\* ------------------------------------------------------- argument samples
\* Strings, ids and instants are opaque to the transition methods: they are
\* stored and copied, never inspected.  Each argument is drawn from a small
\* sample of its type.
Actors == {"developer1", "reviewer1"}
FeatureLists == {<<>>, <<"feature-a">>}
Hashes == {"abc123", "def456"}
BuildIds == {"build123", "build124"}
ArtifactHashes == {"123abc", "456def"}
ArtifactUrls == {"https://example.com/a.tar.gz"}
Notes == {"notes-1", "notes-2"}
Envs == {"staging", "production"}
Reasons == {"critical bug", "superseded"}
\* Uuid::new_v4() results, and the ids handed to add_dependency and
\* add_phase_attestation.
Uuids == {"uuid-1", "uuid-2"}
DependencyIds == {"uuid-3"}
AttestationIds == {"uuid-4"}
\* Utc::now() is the wall clock: any instant may be read at any call.
Times == {"t1", "t2"}
AttestedPhaseNames == {"Source"}

\* ---------------------------------------------------------------- Option
None == [some |-> FALSE]
Some(x) == [some |-> TRUE, val |-> x]

\* ---------------------------------------------------------------- Result
Ok == [ok |-> TRUE]
Err(msg) == [ok |-> FALSE, err |-> msg]

\* ------------------------------------------------------------- SDLCPhase
\* The unit variants are their names; Custom(name) is "Custom:" \o name.
Development == "Development"
Source == "Source"
Build == "Build"
Package == "Package"
Deploy == "Deploy"
Runtime == "Runtime"
Custom(name) == "Custom:" \o name
SDLCPhase == {Development, Source, Build, Package, Deploy, Runtime, Custom("qa")}

\* ---------------------------------------------------------- ReleaseState
Draft == [name |-> "Draft"]
InProgress(started_by, started_at) ==
    [name |-> "InProgress", started_by |-> started_by, started_at |-> started_at]
Releasable(approved_by, approved_at) ==
    [name |-> "Releasable", approved_by |-> approved_by, approved_at |-> approved_at]
Released(release_notes, release_time) ==
    [name |-> "Released", release_notes |-> release_notes, release_time |-> release_time]
Deployed(environment, deployment_time) ==
    [name |-> "Deployed", environment |-> environment, deployment_time |-> deployment_time]
Revoked(reason, revocation_time) ==
    [name |-> "Revoked", reason |-> reason, revocation_time |-> revocation_time]

\* ---------------------------------------------------------- PhaseDetails
EmptyMap == [k \in {} |-> ""]

DevelopmentDetails(feature_list) == [feature_list |-> feature_list]
SourceDetails(commit_hash) == [commit_hash |-> commit_hash]
BuildDetails(build_id, build_timestamp) ==
    [build_id |-> build_id, build_timestamp |-> build_timestamp]
PackageDetails(artifact_hash, artifact_url) ==
    [artifact_hash |-> artifact_hash, artifact_url |-> artifact_url]
DeployDetails(deployment_id, environment) ==
    [deployment_id |-> deployment_id, environment |-> environment]

\* PhaseDetails::new()
PhaseDetailsNew ==
    [development_details |-> None,
     source_details |-> None,
     build_details |-> None,
     package_details |-> None,
     deploy_details |-> None,
     runtime_details |-> None,
     custom_details |-> EmptyMap]

\* ----------------------------------------------------------- SDLCRelease
Components == {[kind |-> "Project", name |-> "Test Project"]}

\* SDLCRelease::new(component, version, created_by), with the fresh id and
\* the instant it reads.
New(id, component, version, created_by, now) ==
    [id |-> id,
     component |-> component,
     version |-> version,
     created_by |-> created_by,
     created_at |-> now,
     commit_hash |-> None,
     dependencies |-> <<>>,
     phase_attestations |-> EmptyMap,
     phase |-> Development,
     state |-> Draft,
     phase_details |-> Some(PhaseDetailsNew)]

\* `if let Some(details) = &mut self.phase_details { details.<field> = v }`
SetDetail(r, field, v) ==
    IF r.phase_details.some
    THEN [r EXCEPT !.phase_details.val = [@ EXCEPT ![field] = v]]
    ELSE r

add_dependency(r, dependency_id) ==
    [r EXCEPT !.dependencies = Append(@, dependency_id)]

add_phase_attestation(r, phase_name, attestation_id) ==
    [r EXCEPT !.phase_attestations =
        [k \in DOMAIN @ \cup {phase_name} |->
            IF k = phase_name THEN attestation_id ELSE @[k]]]

\* Mutant: the feature list is not stored, as in the phantom-typed
\* start_development.
start_development_DropsFeatures(r, started_by, feature_list, now) ==
    IF r.phase = Development /\ r.state.name = "Draft"
    THEN [rec |-> [r EXCEPT !.state = InProgress(started_by, now)], res |-> Ok]
    ELSE [rec |-> r,
          res |-> Err("Cannot start development in the current phase and state.")]

start_development(r, started_by, feature_list, now) ==
    IF r.phase = Development /\ r.state.name = "Draft"
    THEN [rec |-> SetDetail([r EXCEPT !.state = InProgress(started_by, now)],
                            "development_details",
                            Some(DevelopmentDetails(feature_list))),
          res |-> Ok]
    ELSE [rec |-> r,
          res |-> Err("Cannot start development in the current phase and state.")]

\* Mutant: the development payload is kept when Development is left.
complete_development_KeepsDetails(r) ==
    IF r.phase = Development /\ r.state.name = "InProgress"
    THEN [rec |-> SetDetail([r EXCEPT !.phase = Source, !.state = Draft],
                            "source_details", None),
          res |-> Ok]
    ELSE [rec |-> r,
          res |-> Err("Cannot complete development in the current phase and state.")]

complete_development(r) ==
    IF r.phase = Development /\ r.state.name = "InProgress"
    THEN [rec |-> SetDetail(SetDetail([r EXCEPT !.phase = Source, !.state = Draft],
                                      "development_details", None),
                            "source_details", None),
          res |-> Ok]
    ELSE [rec |-> r,
          res |-> Err("Cannot complete development in the current phase and state.")]

start_source_review(r, started_by, now) ==
    IF r.phase = Source /\ r.state.name = "Draft"
    THEN [rec |-> [r EXCEPT !.state = InProgress(started_by, now)], res |-> Ok]
    ELSE [rec |-> r,
          res |-> Err("Cannot start source review in the current phase and state.")]

\* Mutant: commit_hash is written before the guard is looked at.
complete_source_review_EagerWrite(r, commit_hash) ==
    LET w == [r EXCEPT !.commit_hash = Some(commit_hash)]
    IN  IF r.phase = Source /\ r.state.name = "InProgress"
        THEN [rec |-> [SetDetail(w, "source_details", Some(SourceDetails(commit_hash)))
                         EXCEPT !.phase = Build, !.state = Draft],
              res |-> Ok]
        ELSE [rec |-> w,
              res |-> Err("Cannot complete source review in the current phase and state.")]

\* Mutant: only source_details receives the hash, as if the assignment to
\* self.commit_hash were dropped.
complete_source_review_DetailsOnly(r, commit_hash) ==
    IF r.phase = Source /\ r.state.name = "InProgress"
    THEN [rec |-> [SetDetail(r, "source_details", Some(SourceDetails(commit_hash)))
                     EXCEPT !.phase = Build, !.state = Draft],
          res |-> Ok]
    ELSE [rec |-> r,
          res |-> Err("Cannot complete source review in the current phase and state.")]

complete_source_review(r, commit_hash) ==
    IF r.phase = Source /\ r.state.name = "InProgress"
    THEN [rec |-> [SetDetail([r EXCEPT !.commit_hash = Some(commit_hash)],
                             "source_details", Some(SourceDetails(commit_hash)))
                     EXCEPT !.phase = Build, !.state = Draft],
          res |-> Ok]
    ELSE [rec |-> r,
          res |-> Err("Cannot complete source review in the current phase and state.")]

\* Mutant: starting the build forgets the dependencies recorded so far.
start_build_ClearsDependencies(r, started_by, now) ==
    IF r.phase = Build /\ r.state.name = "Draft"
    THEN [rec |-> [r EXCEPT !.state = InProgress(started_by, now),
                            !.dependencies = <<>>],
          res |-> Ok]
    ELSE [rec |-> r,
          res |-> Err("Cannot start build in the current phase and state.")]

start_build(r, started_by, now) ==
    IF r.phase = Build /\ r.state.name = "Draft"
    THEN [rec |-> [r EXCEPT !.state = InProgress(started_by, now)], res |-> Ok]
    ELSE [rec |-> r,
          res |-> Err("Cannot start build in the current phase and state.")]

\* Mutant: completing the build resets the record's commit hash.
complete_build_DropsCommit(r, build_id, now) ==
    IF r.phase = Build /\ r.state.name = "InProgress"
    THEN [rec |-> [SetDetail(r, "build_details", Some(BuildDetails(build_id, now)))
                     EXCEPT !.phase = Package, !.state = Draft, !.commit_hash = None],
          res |-> Ok]
    ELSE [rec |-> r,
          res |-> Err("Cannot complete build in the current phase and state.")]

complete_build(r, build_id, now) ==
    IF r.phase = Build /\ r.state.name = "InProgress"
    THEN [rec |-> [SetDetail(r, "build_details", Some(BuildDetails(build_id, now)))
                     EXCEPT !.phase = Package, !.state = Draft],
          res |-> Ok]
    ELSE [rec |-> r,
          res |-> Err("Cannot complete build in the current phase and state.")]

\* Mutant: the guard asks for the Draft status only, in whatever phase.
start_packaging_AnyDraft(r, started_by, now) ==
    IF r.state.name = "Draft"
    THEN [rec |-> [r EXCEPT !.state = InProgress(started_by, now)], res |-> Ok]
    ELSE [rec |-> r,
          res |-> Err("Cannot start packaging in the current phase and state.")]

start_packaging(r, started_by, now) ==
    IF r.phase = Package /\ r.state.name = "Draft"
    THEN [rec |-> [r EXCEPT !.state = InProgress(started_by, now)], res |-> Ok]
    ELSE [rec |-> r,
          res |-> Err("Cannot start packaging in the current phase and state.")]

\* Mutant: the phase is left at Package, as the phantom-typed
\* complete_packaging did.
complete_packaging_StaysInPackage(r, artifact_hash, artifact_url, now) ==
    IF r.phase = Package /\ r.state.name = "InProgress"
    THEN [rec |-> [SetDetail(r, "package_details",
                             Some(PackageDetails(artifact_hash, artifact_url)))
                     EXCEPT !.state = Releasable("Auto-Approved", now)],
          res |-> Ok]
    ELSE [rec |-> r,
          res |-> Err("Cannot complete packaging in the current phase and state.")]

\* Mutant: the approver is left empty, as Releasable::new() leaves it.
complete_packaging_NoApprover(r, artifact_hash, artifact_url, now) ==
    IF r.phase = Package /\ r.state.name = "InProgress"
    THEN [rec |-> [SetDetail(r, "package_details",
                             Some(PackageDetails(artifact_hash, artifact_url)))
                     EXCEPT !.phase = Deploy, !.state = Releasable("", now)],
          res |-> Ok]
    ELSE [rec |-> r,
          res |-> Err("Cannot complete packaging in the current phase and state.")]

complete_packaging(r, artifact_hash, artifact_url, now) ==
    IF r.phase = Package /\ r.state.name = "InProgress"
    THEN [rec |-> [SetDetail(r, "package_details",
                             Some(PackageDetails(artifact_hash, artifact_url)))
                     EXCEPT !.phase = Deploy,
                            !.state = Releasable("Auto-Approved", now)],
          res |-> Ok]
    ELSE [rec |-> r,
          res |-> Err("Cannot complete packaging in the current phase and state.")]

\* Mutant: releasing also moves the record to Deploy, as the phantom-typed
\* release did.
release_MovesToDeploy(r, release_notes, now) ==
    IF r.state.name = "Releasable"
    THEN [rec |-> [r EXCEPT !.phase = Deploy,
                            !.state = Released(release_notes, now)],
          res |-> Ok]
    ELSE [rec |-> r, res |-> Err("Cannot release in the current state.")]

\* Mutant: the guard also lets an already Released record through.
release_AlsoReleased(r, release_notes, now) ==
    IF r.state.name \in {"Releasable", "Released"}
    THEN [rec |-> [r EXCEPT !.state = Released(release_notes, now)], res |-> Ok]
    ELSE [rec |-> r, res |-> Err("Cannot release in the current state.")]

release(r, release_notes, now) ==
    IF r.state.name = "Releasable"
    THEN [rec |-> [r EXCEPT !.state = Released(release_notes, now)], res |-> Ok]
    ELSE [rec |-> r, res |-> Err("Cannot release in the current state.")]

\* Mutant: the environment is recorded as the actor, as the phantom-typed
\* start_deployment did.
start_deployment_EnvAsActor(r, environment, deployment_id, now) ==
    IF r.phase = Deploy /\ r.state.name = "Released"
    THEN [rec |-> SetDetail([r EXCEPT !.state = InProgress(environment, now)],
                            "deploy_details",
                            Some(DeployDetails(deployment_id, environment))),
          res |-> Ok]
    ELSE [rec |-> r,
          res |-> Err("Cannot start deployment in the current phase and state.")]

\* Mutant: deploy_details is not stored, as in the phantom-typed
\* start_deployment.
start_deployment_NoDetails(r, environment, deployment_id, now) ==
    IF r.phase = Deploy /\ r.state.name = "Released"
    THEN [rec |-> [r EXCEPT !.state = InProgress("Deployment System", now)],
          res |-> Ok]
    ELSE [rec |-> r,
          res |-> Err("Cannot start deployment in the current phase and state.")]

start_deployment(r, environment, deployment_id, now) ==
    IF r.phase = Deploy /\ r.state.name = "Released"
    THEN [rec |-> SetDetail([r EXCEPT !.state = InProgress("Deployment System", now)],
                            "deploy_details",
                            Some(DeployDetails(deployment_id, environment))),
          res |-> Ok]
    ELSE [rec |-> r,
          res |-> Err("Cannot start deployment in the current phase and state.")]

\* Mutant: the deploy payload is moved out of the record (Option::take)
\* when its environment is read.
complete_deployment_TakesDetails(r, now) ==
    IF r.phase = Deploy /\ r.state.name = "InProgress"
    THEN LET moved == [r EXCEPT !.phase = Runtime]
         IN  IF moved.phase_details.some
             THEN IF moved.phase_details.val.deploy_details.some
                  THEN [rec |-> [SetDetail(moved, "deploy_details", None) EXCEPT !.state =
                                    Deployed(moved.phase_details.val.deploy_details.val.environment,
                                             now)],
                        res |-> Ok]
                  ELSE [rec |-> moved, res |-> Err("Deployment details missing.")]
             ELSE [rec |-> moved, res |-> Err("Phase details missing.")]
    ELSE [rec |-> r,
          res |-> Err("Cannot complete deployment in the current phase and state.")]

\* The phase is assigned before the detail payload is looked at; the two
\* early returns leave that assignment in place.
complete_deployment(r, now) ==
    IF r.phase = Deploy /\ r.state.name = "InProgress"
    THEN LET moved == [r EXCEPT !.phase = Runtime]
         IN  IF moved.phase_details.some
             THEN IF moved.phase_details.val.deploy_details.some
                  THEN [rec |-> [moved EXCEPT !.state =
                                    Deployed(moved.phase_details.val.deploy_details.val.environment,
                                             now)],
                        res |-> Ok]
                  ELSE [rec |-> moved, res |-> Err("Deployment details missing.")]
             ELSE [rec |-> moved, res |-> Err("Phase details missing.")]
    ELSE [rec |-> r,
          res |-> Err("Cannot complete deployment in the current phase and state.")]

\* Mutant: the guard also asks for the Runtime phase.
revoke_RuntimeOnly(r, reason, now) ==
    IF r.phase = Runtime /\ r.state.name = "Deployed"
    THEN [rec |-> [r EXCEPT !.state = Revoked(reason, now)], res |-> Ok]
    ELSE [rec |-> r, res |-> Err("Cannot revoke in the current state.")]

\* Mutant: the guard asks for the phase the record was deployed from.
revoke_DeployPhaseOnly(r, reason, now) ==
    IF r.phase = Deploy /\ r.state.name = "Deployed"
    THEN [rec |-> [r EXCEPT !.state = Revoked(reason, now)], res |-> Ok]
    ELSE [rec |-> r, res |-> Err("Cannot revoke in the current state.")]

\* Mutant: a revoked record can be revoked again, with a new reason.
revoke_AlsoRevoked(r, reason, now) ==
    IF r.state.name \in {"Deployed", "Revoked"}
    THEN [rec |-> [r EXCEPT !.state = Revoked(reason, now)], res |-> Ok]
    ELSE [rec |-> r, res |-> Err("Cannot revoke in the current state.")]

revoke(r, reason, now) ==
    IF r.state.name = "Deployed"
    THEN [rec |-> [r EXCEPT !.state = Revoked(reason, now)], res |-> Ok]
    ELSE [rec |-> r, res |-> Err("Cannot revoke in the current state.")]

\* validate(&self): only the Development and Source combinations are listed;
\* every other combination falls to the catch-all arm.
validate(r) ==
    IF \/ (r.phase = Development /\ r.state.name \in {"Draft", "InProgress"})
       \/ (r.phase = Source /\ r.state.name \in {"Draft", "InProgress"})
    THEN Ok
    ELSE Err("Invalid phase and state combination.")

\* ---------------------------------------------------------------- Policy
\* PolicyRule
MaxAge(duration) == [kind |-> "MaxAge", duration |-> duration]
ApprovedIdentities(identities) ==
    [kind |-> "ApprovedIdentities", identities |-> identities]
RequiredClaims(required) == [kind |-> "RequiredClaims", required |-> required]
VulnerabilityThreshold(level, max_count) ==
    [kind |-> "VulnerabilityThreshold", level |-> level, max_count |-> max_count]

\* Policy::new(name, applies_to), with the fresh id.
PolicyNew(id, name, applies_to) ==
    [id |-> id,
     name |-> name,
     rules |-> <<>>,
     parent_policies |-> <<>>,
     applies_to |-> applies_to]

add_rule(p, rule) == [p EXCEPT !.rules = Append(@, rule)]

\* ----------------------------------------------------------- Attestation
Signature(signer, signature) == [signer |-> signer, signature |-> signature]

\* Attestation::new(subject, claims), with the fresh id and the instant read.
AttestationNew(id, subject, claims, now) ==
    [id |-> id,
     subject |-> subject,
     timestamp |-> now,
     expiration |-> None,
     signatures |-> <<>>,
     claims |-> claims,
     parent_attestations |-> <<>>]

add_signature(a, signer, signature) ==
    [a EXCEPT !.signatures = Append(@, Signature(signer, signature))]

\* ----------------------------------------------------------- check_policy
\* Instants and durations are whole seconds.  ChronoMaxSecs stands for
\* chrono::Duration::MAX on the model's scale: above every age the model's
\* instants can give, below the largest std::time::Duration sample.
ChronoMaxSecs == 1000

\* ChronoDuration::from_std(d): Err(OutOfRangeError) above chrono's maximum.
from_std(d) == IF d <= ChronoMaxSecs THEN Some(d) ELSE None

\* .unwrap_or_else(|_| ChronoDuration::zero())
unwrap_or_zero(o) == IF o.some THEN o.val ELSE 0

\* approved.contains(&signer)
RECURSIVE contains(_, _)
contains(v, x) ==
    IF v = <<>> THEN FALSE
    ELSE IF Head(v) = x THEN TRUE ELSE contains(Tail(v), x)

\* Mutant: only the first signature is looked at.
any_signer_approved_FirstOnly(signatures, approved) ==
    IF signatures = <<>> THEN FALSE
    ELSE contains(approved, Head(signatures).signer)

\* attestation.signatures.iter().any(|sig| approved.contains(&sig.signer))
RECURSIVE any_signer_approved(_, _)
any_signer_approved(signatures, approved) ==
    IF signatures = <<>> THEN FALSE
    ELSE IF contains(approved, Head(signatures).signer) THEN TRUE
         ELSE any_signer_approved(Tail(signatures), approved)

\* Mutant: the catch-all arm rejects the rules it does not evaluate.
check_policy_rule_OthersFail(rule, attestation, now) ==
    CASE rule.kind = "ApprovedIdentities" ->
           any_signer_approved(attestation.signatures, rule.identities)
      [] rule.kind = "MaxAge" ->
           now - attestation.timestamp <= unwrap_or_zero(from_std(rule.duration))
      [] OTHER -> FALSE

\* The closure of check_policy: one rule against the attestation at `now`.
check_policy_rule(rule, attestation, now) ==
    CASE rule.kind = "ApprovedIdentities" ->
           any_signer_approved(attestation.signatures, rule.identities)
      [] rule.kind = "MaxAge" ->
           now - attestation.timestamp <= unwrap_or_zero(from_std(rule.duration))
      [] OTHER -> TRUE

\* policy.rules.iter().all(..) over the rules left.
RECURSIVE all_rules(_, _, _)
all_rules(rules, attestation, now) ==
    IF rules = <<>> THEN TRUE
    ELSE IF check_policy_rule(Head(rules), attestation, now)
         THEN all_rules(Tail(rules), attestation, now)
         ELSE FALSE

check_policy(p, attestation, now) == all_rules(p.rules, attestation, now)

\* ------------------------------------------------- check_runtime_policy
\* VulnerabilityLevel derives PartialOrd: the variants compare in the order
\* of their declaration.
VulnerabilityLevel == <<"Low", "Medium", "High", "Critical">>
LevelOrd(level) == CHOOSE i \in DOMAIN VulnerabilityLevel : VulnerabilityLevel[i] = level

Vulnerability(id, severity, description, discovered_at) ==
    [id |-> id, severity |-> severity, description |-> description,
     discovered_at |-> discovered_at]

\* <state::Deployed as ReleaseState>::new()
state_Deployed_new(now) ==
    [deployment_time |-> now, environment |-> "", vulnerabilities |-> <<>>]

\* SDLCRelease::<phase::Runtime, state::Deployed>::new(component, version,
\* created_by): the release of the phantom-typed model, its phase and state
\* fixed by its type.
TypedNew(id, component, version, created_by, now) ==
    [id |-> id,
     component |-> component,
     version |-> version,
     created_by |-> created_by,
     created_at |-> now,
     commit_hash |-> None,
     dependencies |-> <<>>,
     phase_attestations |-> EmptyMap,
     state_info |-> state_Deployed_new(now)]

\* Mutant: counts the vulnerabilities below the level too.
count_at_least_AnySeverity(vulnerabilities, level) == Len(vulnerabilities)

\* .iter().filter(|v| v.severity >= *level).count()
RECURSIVE count_at_least(_, _)
count_at_least(vulnerabilities, level) ==
    IF vulnerabilities = <<>> THEN 0
    ELSE (IF LevelOrd(Head(vulnerabilities).severity) >= LevelOrd(level) THEN 1 ELSE 0)
         + count_at_least(Tail(vulnerabilities), level)

\* Mutant: the count must stay below max_count.
check_runtime_policy_rule_Strict(rule, rel) ==
    CASE rule.kind = "VulnerabilityThreshold" ->
           count_at_least(rel.state_info.vulnerabilities, rule.level)
             < rule.max_count
      [] OTHER -> TRUE

\* The closure of check_runtime_policy: one rule against the release.
check_runtime_policy_rule(rule, rel) ==
    CASE rule.kind = "VulnerabilityThreshold" ->
           count_at_least(rel.state_info.vulnerabilities, rule.level)
             <= rule.max_count
      [] OTHER -> TRUE

RECURSIVE all_runtime_rules(_, _)
all_runtime_rules(rules, rel) ==
    IF rules = <<>> THEN TRUE
    ELSE IF check_runtime_policy_rule(Head(rules), rel)
         THEN all_runtime_rules(Tail(rules), rel)
         ELSE FALSE

check_runtime_policy(p, rel) == all_runtime_rules(p.rules, rel)

\* release.state_info.vulnerabilities.extend(vulnerabilities)
update_release_vulnerabilities(rel, vulnerabilities) ==
    [rel EXCEPT !.state_info.vulnerabilities = @ \o vulnerabilities]

\* ------------------------------------------------ namespace directory
\* A string is the sequence of its characters; a path is a string.
Slash == "/"

\* NamespaceNode: children maps a child's name to the child.
NamespaceNode(name, children) == [name |-> name, children |-> children]
NoChildren == [n \in {} |-> {}]

\* InMemoryNamespaceManager::new(): the root, of empty name.
NamespaceNew == NamespaceNode(<<>>, NoChildren)

\* path.trim_matches('/')
RECURSIVE trim_start(_)
trim_start(str) ==
    IF str # <<>> /\ Head(str) = Slash THEN trim_start(Tail(str)) ELSE str
RECURSIVE trim_end(_)
trim_end(str) ==
    IF str # <<>> /\ str[Len(str)] = Slash
    THEN trim_end(SubSeq(str, 1, Len(str) - 1))
    ELSE str
trim_matches(str) == trim_end(trim_start(str))

\* .split('/'): the pieces between the slashes, the empty ones included.
RECURSIVE split(_)
split(str) ==
    IF \E i \in DOMAIN str : str[i] = Slash
    THEN LET i == CHOOSE j \in DOMAIN str :
                     str[j] = Slash /\ \A h \in 1..(j - 1) : str[h] # Slash
         IN  <<SubSeq(str, 1, i - 1)>> \o split(SubSeq(str, i + 1, Len(str)))
    ELSE <<str>>

\* Mutant: the empty pieces are kept.
parse_path_KeepsEmpty(path) == split(trim_matches(path))

parse_path(path) == SelectSeq(split(trim_matches(path)), LAMBDA part : part # <<>>)

\* Mutant: a part replaces the child of its name, whatever that child holds.
RECURSIVE entry_or_insert_Overwrites(_, _)
entry_or_insert_Overwrites(node, parts) ==
    IF parts = <<>> THEN node
    ELSE [node EXCEPT !.children =
             [n \in DOMAIN @ \cup {Head(parts)} |->
                 IF n = Head(parts)
                 THEN entry_or_insert_Overwrites(NamespaceNode(Head(parts), NoChildren),
                                                 Tail(parts))
                 ELSE @[n]]]

\* The loop of create_namespace: children.entry(part).or_insert_with(..) for
\* each part, going down.
RECURSIVE entry_or_insert(_, _)
entry_or_insert(node, parts) ==
    IF parts = <<>> THEN node
    ELSE LET part == Head(parts)
             child == IF part \in DOMAIN node.children
                      THEN node.children[part]
                      ELSE NamespaceNode(part, NoChildren)
         IN  [node EXCEPT !.children =
                 [n \in DOMAIN @ \cup {part} |->
                     IF n = part THEN entry_or_insert(child, Tail(parts)) ELSE @[n]]]

\* Mutant: a path that leads to a node is refused.
create_namespace_RejectsExisting(root_node, path) ==
    LET parts == parse_path(path)
    IN  IF parts = <<>>
        THEN [root |-> root_node, res |-> Err("InvalidPath")]
        ELSE IF entry_or_insert(root_node, parts) = root_node
             THEN [root |-> root_node, res |-> Err("AlreadyExists")]
             ELSE [root |-> entry_or_insert(root_node, parts), res |-> Ok]

create_namespace(root_node, path) ==
    LET parts == parse_path(path)
    IN  IF parts = <<>>
        THEN [root |-> root_node, res |-> Err("InvalidPath")]
        ELSE [root |-> entry_or_insert(root_node, parts), res |-> Ok]

\* Mutant: the walk stops at the last node it finds.
RECURSIVE get_node_StopsAtMissing(_, _)
get_node_StopsAtMissing(node, parts) ==
    IF parts = <<>> THEN Some(node)
    ELSE IF Head(parts) \in DOMAIN node.children
         THEN get_node_StopsAtMissing(node.children[Head(parts)], Tail(parts))
         ELSE Some(node)

\* The loop of list_namespaces and drill_down: children.get(&part) for each
\* part, going down.
RECURSIVE get_node(_, _)
get_node(node, parts) ==
    IF parts = <<>> THEN Some(node)
    ELSE IF Head(parts) \in DOMAIN node.children
         THEN get_node(node.children[Head(parts)], Tail(parts))
         ELSE None

\* list_namespaces: the keys of the node's children; `keys` is the set the
\* Vec is collected from, in the order the HashMap yields them.
list_namespaces(root_node, path) ==
    LET found == get_node(root_node, parse_path(path))
    IN  IF found.some
        THEN [res |-> Ok, keys |-> DOMAIN found.val.children]
        ELSE [res |-> Err("NotFound"), keys |-> {}]

\* drill_down: the node at the path, with everything below it.
drill_down(root_node, path) ==
    LET found == get_node(root_node, parse_path(path))
    IN  IF found.some
        THEN [res |-> Ok, node |-> found.val]
        ELSE [res |-> Err("NotFound"), node |-> NamespaceNew]

\* Mutant: the last part is removed from the root's children.
delete_at_FromRoot(node, parts) ==
    IF parts[Len(parts)] \in DOMAIN node.children
    THEN [root |-> [node EXCEPT !.children =
                       [n \in DOMAIN @ \ {parts[Len(parts)]} |-> @[n]]],
          res |-> Ok]
    ELSE [root |-> node, res |-> Err("NotFound")]

\* delete_namespace below the empty-path check: down through all parts but
\* the last (get_mut), then children.remove(last).
RECURSIVE delete_at(_, _)
delete_at(node, parts) ==
    IF Len(parts) = 1
    THEN IF parts[1] \in DOMAIN node.children
         THEN [root |-> [node EXCEPT !.children =
                            [n \in DOMAIN @ \ {parts[1]} |-> @[n]]],
               res |-> Ok]
         ELSE [root |-> node, res |-> Err("NotFound")]
    ELSE IF Head(parts) \in DOMAIN node.children
         THEN LET below == delete_at(node.children[Head(parts)], Tail(parts))
              IN  [root |-> [node EXCEPT !.children[Head(parts)] = below.root],
                   res |-> below.res]
         ELSE [root |-> node, res |-> Err("NotFound")]

delete_namespace(root_node, path) ==
    LET parts == parse_path(path)
    IN  IF parts = <<>>
        THEN [root |-> root_node, res |-> Err("InvalidPath")]
        ELSE delete_at(root_node, parts)

\* str.contains(query)
str_contains(str, query) ==
    \E i \in 0..(Len(str) - Len(query)) : SubSeq(str, i + 1, i + Len(query)) = query

\* Mutant: every node below the root is pushed as path/name.
current_path_AlwaysJoined(node, path) ==
    IF node.name = <<>> THEN path ELSE path \o <<Slash>> \o node.name

\* The current_path of search_recursive.
current_path(node, path) ==
    IF path = <<>> THEN node.name
    ELSE IF node.name = <<>> THEN path
    ELSE path \o <<Slash>> \o node.name

\* search_recursive: the Vecs `results` can be extended by, one for each
\* order in which the HashMap yields the children.
RECURSIVE search_recursive(_, _, _)
RECURSIVE search_children(_, _, _, _)
search_children(children, names, path, query) ==
    IF names = {} THEN {<<>>}
    ELSE UNION {{first \o rest :
                    first \in search_recursive(children[n], path, query),
                    rest \in search_children(children, names \ {n}, path, query)} :
                n \in names}

search_recursive(node, path, query) ==
    LET here == current_path(node, path)
        pushed == IF str_contains(node.name, query) /\ node.name # <<>>
                  THEN <<here>> ELSE <<>>
    IN  {pushed \o below :
            below \in search_children(node.children, DOMAIN node.children, here, query)}

search_namespaces(root_node, query) == search_recursive(root_node, <<>>, query)

\* ------------------------------------------------ shared nodes
\* The nodes as allocations: Arc<NamespaceNode> is the address of a cell that
\* holds the node and its strong count, children maps a name to the address
\* of the child's cell.  A cell with strong = 0 is free.
Addrs == 1..MaxNodes
FreeCell == [strong |-> 0, name |-> <<>>, children |-> NoChildren]
HeapNew == [a \in Addrs |-> IF a = 1 THEN [FreeCell EXCEPT !.strong = 1] ELSE FreeCell]
FreeAddrs(h) == {a \in Addrs : h[a].strong = 0}

\* Arc::new(node): the lowest free cell.
Arc_new(h, name) ==
    LET at == CHOOSE a \in FreeAddrs(h) : \A b \in FreeAddrs(h) : a <= b
    IN  [heap |-> [h EXCEPT ![at] = [strong |-> 1, name |-> name, children |-> NoChildren]],
         at |-> at]

\* Arc::clone
Arc_clone(h, at) == [h EXCEPT ![at].strong = @ + 1]

\* Drop of an Arc: the count goes down by one; the last Arc drops the node,
\* and with it the Arcs in its children.
RECURSIVE Arc_drop(_, _)
RECURSIVE drop_children(_, _)
Arc_drop(h, at) ==
    IF h[at].strong > 1
    THEN [h EXCEPT ![at].strong = @ - 1]
    ELSE drop_children([h EXCEPT ![at] = FreeCell],
                       {h[at].children[n] : n \in DOMAIN h[at].children})
drop_children(h, ats) ==
    IF ats = {} THEN h
    ELSE LET at == CHOOSE a \in ats : TRUE
         IN  drop_children(Arc_drop(h, at), ats \ {at})

\* Mutant: the node is handed out for writing whoever else holds it.
make_mut_InPlace(h, at) == [heap |-> h, at |-> at]

\* Arc::make_mut(&mut arc): a node held by this Arc alone is handed out for
\* writing; a shared one is cloned into a new allocation (the clone of its
\* children map clones every Arc in it), which replaces this Arc.
make_mut(h, at) ==
    IF h[at].strong = 1
    THEN [heap |-> h, at |-> at]
    ELSE LET made == Arc_new(h, h[at].name)
             kids == {h[at].children[n] : n \in DOMAIN h[at].children}
         IN  [heap |-> [a \in Addrs |->
                          IF a = made.at
                          THEN [made.heap[a] EXCEPT !.children = h[at].children]
                          ELSE IF a = at THEN [h[a] EXCEPT !.strong = @ - 1]
                          ELSE IF a \in kids THEN [h[a] EXCEPT !.strong = @ + 1]
                          ELSE h[a]],
              at |-> made.at]

\* The loop of create_namespace on the cells: `cur` is the node make_mut
\* handed out.
RECURSIVE create_from(_, _, _)
create_from(h, cur, parts) ==
    IF parts = <<>> THEN h
    ELSE LET part == Head(parts)
             made == Arc_new(h, part)
             entry == IF part \in DOMAIN h[cur].children
                      THEN h
                      ELSE [made.heap EXCEPT ![cur].children =
                               [n \in DOMAIN @ \cup {part} |->
                                   IF n = part THEN made.at ELSE @[n]]]
             child == make_mut(entry, entry[cur].children[part])
         IN  create_from([child.heap EXCEPT ![cur].children[part] = child.at],
                         child.at, Tail(parts))

\* create_namespace on the cells; `root_at` is the Arc behind the RwLock.
create_namespace_arc(h, root_at, path) ==
    LET parts == parse_path(path)
        top == make_mut(h, root_at)
    IN  IF parts = <<>>
        THEN [heap |-> h, root |-> root_at, res |-> Err("InvalidPath")]
        ELSE [heap |-> create_from(top.heap, top.at, parts), root |-> top.at,
              res |-> Ok]

\* The loop and the remove of delete_namespace on the cells.
RECURSIVE delete_from(_, _, _)
delete_from(h, cur, parts) ==
    IF Head(parts) \notin DOMAIN h[cur].children
    THEN [heap |-> h, res |-> Err("NotFound")]
    ELSE IF Len(parts) = 1
         THEN [heap |-> Arc_drop([h EXCEPT ![cur].children =
                                     [n \in DOMAIN @ \ {parts[1]} |-> @[n]]],
                                 h[cur].children[parts[1]]),
               res |-> Ok]
         ELSE LET child == make_mut(h, h[cur].children[Head(parts)])
              IN  delete_from([child.heap EXCEPT ![cur].children[Head(parts)] = child.at],
                              child.at, Tail(parts))

\* delete_namespace on the cells.  The nodes make_mut cloned on the way stay
\* in place when the path turns out not to exist.
delete_namespace_arc(h, root_at, path) ==
    LET parts == parse_path(path)
        top == make_mut(h, root_at)
        below == delete_from(top.heap, top.at, parts)
    IN  IF parts = <<>>
        THEN [heap |-> h, root |-> root_at, res |-> Err("InvalidPath")]
        ELSE [heap |-> below.heap, root |-> top.at, res |-> below.res]

\* The walk of drill_down on the cells.
RECURSIVE get_at(_, _, _)
get_at(h, at, parts) ==
    IF parts = <<>> THEN Some(at)
    ELSE IF Head(parts) \in DOMAIN h[at].children
         THEN get_at(h, h[at].children[Head(parts)], Tail(parts))
         ELSE None

\* drill_down on the cells: each step clones the child's Arc and drops the
\* Arc it came from, so one more Arc to the node found is left, and none
\* when a part is missing.
drill_down_arc(h, root_at, path) ==
    LET found == get_at(h, root_at, parse_path(path))
    IN  IF found.some
        THEN [heap |-> Arc_clone(h, found.val), res |-> Ok, at |-> found.val]
        ELSE [heap |-> h, res |-> Err("NotFound"), at |-> root_at]

\* The node an Arc leads to, with everything below it.
RECURSIVE deref(_, _)
deref(h, at) ==
    NamespaceNode(h[at].name,
                  [n \in DOMAIN h[at].children |-> deref(h, h[at].children[n])])

\* ------------------------------------------------ attestation store
\* The HashMap<Uuid, Attestation> of InMemoryAttestationService as a function
\* from the ids it holds.
\* Mutant: an attestation already held under the id is kept
\* (entry(..).or_insert).
store_attestation_KeepsExisting(held_map, a) ==
    [map |-> [id \in DOMAIN held_map \cup {a.id} |->
                 IF id \in DOMAIN held_map THEN held_map[id] ELSE a],
     res |-> Ok]

\* store_attestation under the write lock: attestations.insert(attestation.id,
\* attestation); Ok(())
store_attestation(held_map, a) ==
    [map |-> [id \in DOMAIN held_map \cup {a.id} |->
                 IF id = a.id THEN a ELSE held_map[id]],
     res |-> Ok]

\* get_attestation under the read lock: Ok(attestations.get(id).cloned())
get_attestation(held_map, id) ==
    [res |-> Ok,
     val |-> IF id \in DOMAIN held_map THEN Some(held_map[id]) ELSE None]

\* ------------------------------------------------------------------ state
\* record:  the SDLCRelease under management
\* last:    the most recent call on it and the Result it returned
\* okOps:   the transition methods that have returned Ok so far, in order
\* repeat:  the most recent call repeated the call before it, which had
\*          returned Ok
\* policy:      the Policy under evaluation
\* attestation: the Attestation it is evaluated against
\* verdict:     what the most recent call on them returned
\* deployed:    the release in (Runtime, Deployed) the runtime check reads
\* lock:        the writer holding the record exclusively, 0 when none does
\* reqs:        each writer's transition request and how far it has got
\* seen:        the record as a reader last read it
\* stable:      the record as the last committed transition left it
\* root:        the root node of the namespace directory
\* answer:      the most recent call on the directory and what it returned
\* heap:        the allocations the directory's nodes live in
\* rootAt:      the Arc behind the directory's RwLock
\* held:        the subtrees drill_down returned that readers still hold, each
\*              with the node it led to when it was returned
\* attestations: the map of the attestation store
\* rwlock:      the store's RwLock: the task writing, the tasks reading
\* calls:       each task's call on the store and how far it has got
\* stored:      the attestations inserted so far, in the order of the inserts
VARIABLES record, last, okOps, repeat, policy, attestation, verdict, deployed,
          lock, reqs, seen, stable, root, answer, heap, rootAt, held,
          attestations, rwlock, calls, stored

releaseVars == <<record, last, okOps, repeat>>
policyVars == <<policy, attestation, verdict>>
accessVars == <<lock, reqs, seen, stable>>
arcVars == <<heap, rootAt, held>>
nsVars == <<root, answer, arcVars>>
storeVars == <<attestations, rwlock, calls, stored>>
vars == <<record, last, okOps, repeat, policy, attestation, verdict, deployed,
          lock, reqs, seen, stable, root, answer, heap, rootAt, held,
          attestations, rwlock, calls, stored>>

\* What a call on the record, and what a call on the policy and the
\* attestation, cannot reach.
nonReleaseVars == <<policyVars, deployed, accessVars, nsVars, storeVars>>
nonPolicyVars == <<releaseVars, deployed, accessVars, nsVars, storeVars>>

\* The writers that may ask for a transition of the record.
Writers == {1, 2}

\* The tasks that call the attestation store.
Tasks == {1, 2}

\* InMemoryAttestationService::new(): an empty map, the lock free, no call.
StoreInit ==
    /\ attestations = EmptyMap
    /\ rwlock = [writer |-> 0, readers |-> {}]
    /\ calls = [t \in Tasks |-> [pc |-> "idle"]]
    /\ stored = <<>>

\* Nobody asks for the record: no request, no lock held.
AccessInit ==
    /\ lock = 0
    /\ reqs = [w \in Writers |-> [pc |-> "idle"]]
    /\ seen = record
    /\ stable = record

\* The directory as constructed, before any call.
NamespaceInit ==
    /\ root = NamespaceNew
    /\ answer = [op |-> "new"]
    /\ heap = HeapNew
    /\ rootAt = 1
    /\ held = <<>>

NoVerdict == [check |-> "none"]

\* The policy and the attestation as constructed, before any check.
PolicyInit ==
    /\ policy = PolicyNew("uuid-5", "Security Policy", <<"Source", "Build">>)
    /\ attestation \in
          {AttestationNew("uuid-6",
                          [type_ |-> "Artifact", name |-> "app-1.0.0.jar",
                           digest |-> "sha256:1234567890abcdef"],
                          EmptyMap, t) : t \in 0..MaxClock}
    /\ verdict = NoVerdict

\* The deployed release as constructed, nobody asking for the record and an
\* empty directory.
DeployedInit ==
    /\ deployed = TypedNew("uuid-7", [kind |-> "Unmanaged", name |-> "Unmanaged Component"],
                           "1.0.0", "integrator1", 0)
    /\ AccessInit
    /\ NamespaceInit
    /\ StoreInit

\* The release model evaluates no policy: one fixed policy and attestation.
PolicyIdle ==
    /\ policy = PolicyNew("uuid-5", "Security Policy", <<"Source", "Build">>)
    /\ attestation =
          AttestationNew("uuid-6",
                         [type_ |-> "Artifact", name |-> "app-1.0.0.jar",
                          digest |-> "sha256:1234567890abcdef"],
                         EmptyMap, 0)
    /\ verdict = NoVerdict
    /\ DeployedInit

\* One call of a transition method: `out` is what the method leaves behind.
Call(op, out) ==
    /\ record' = out.rec
    /\ last' = [op |-> op, res |-> out.res]
    /\ okOps' = IF out.res.ok THEN Append(okOps, op) ELSE okOps
    /\ repeat' = (last.op = op /\ last.res.ok)
    /\ UNCHANGED nonReleaseVars

\* One call of a method that returns (): it cannot fail.
CallUnit(op, rec) ==
    /\ record' = rec
    /\ last' = [op |-> op, res |-> Ok]
    /\ repeat' = FALSE
    /\ UNCHANGED okOps
    /\ UNCHANGED nonReleaseVars

Init ==
    /\ record \in {New("uuid-0", c, "1.0.0", "developer1", "t0") : c \in Components}
    /\ last = [op |-> "init", res |-> Ok]
    /\ okOps = <<>>
    /\ repeat = FALSE
    /\ PolicyIdle

AddDependency ==
    /\ Len(record.dependencies) < MaxDeps
    /\ \E dependency_id \in DependencyIds :
          CallUnit("add_dependency", add_dependency(record, dependency_id))

AddPhaseAttestation ==
    \E phase_name \in AttestedPhaseNames, attestation_id \in AttestationIds :
        CallUnit("add_phase_attestation",
                 add_phase_attestation(record, phase_name, attestation_id))

\* validate takes &self: the record cannot change.
Validate ==
    /\ last' = [op |-> "validate", res |-> validate(record)]
    /\ repeat' = FALSE
    /\ UNCHANGED <<record, okOps>>
    /\ UNCHANGED nonReleaseVars

StartDevelopment ==
    \E started_by \in Actors, feature_list \in FeatureLists, now \in Times :
        Call("start_development",
             start_development(record, started_by, feature_list, now))

CompleteDevelopment ==
    Call("complete_development", complete_development(record))

StartSourceReview ==
    \E started_by \in Actors, now \in Times :
        Call("start_source_review", start_source_review(record, started_by, now))

CompleteSourceReview(commit_hash) ==
    Call("complete_source_review", complete_source_review(record, commit_hash))

StartBuild ==
    \E started_by \in Actors, now \in Times :
        Call("start_build", start_build(record, started_by, now))

CompleteBuild ==
    \E build_id \in BuildIds, now \in Times :
        Call("complete_build", complete_build(record, build_id, now))

StartPackaging ==
    \E started_by \in Actors, now \in Times :
        Call("start_packaging", start_packaging(record, started_by, now))

CompletePackaging ==
    \E artifact_hash \in ArtifactHashes, artifact_url \in ArtifactUrls, now \in Times :
        Call("complete_packaging",
             complete_packaging(record, artifact_hash, artifact_url, now))

Release ==
    \E release_notes \in Notes, now \in Times :
        Call("release", release(record, release_notes, now))

StartDeployment(environment) ==
    \E deployment_id \in Uuids, now \in Times :
        Call("start_deployment",
             start_deployment(record, environment, deployment_id, now))

CompleteDeployment ==
    \E now \in Times :
        Call("complete_deployment", complete_deployment(record, now))

Revoke ==
    \E reason \in Reasons, now \in Times :
        Call("revoke", revoke(record, reason, now))

Next ==
    \/ AddDependency
    \/ AddPhaseAttestation
    \/ StartDevelopment
    \/ CompleteDevelopment
    \/ StartSourceReview
    \/ \E commit_hash \in Hashes : CompleteSourceReview(commit_hash)
    \/ StartBuild
    \/ CompleteBuild
    \/ StartPackaging
    \/ CompletePackaging
    \/ Release
    \/ \E environment \in Envs : StartDeployment(environment)
    \/ CompleteDeployment
    \/ Revoke
    \/ Validate

\* A record created by SDLCRelease::new and driven through its methods.
Spec == Init /\ [][Next]_vars

\* Every field of SDLCRelease is pub and the type derives Deserialize: a
\* record can also enter the program as a struct literal or from JSON, in any
\* phase, state and detail payload.  One sample of each state variant and of
\* each shape of phase_details.
StateSamples ==
    {Draft,
     InProgress("developer1", "t1"),
     Releasable("approver1", "t1"),
     Released("notes-1", "t1"),
     Deployed("staging", "t1"),
     Revoked("superseded", "t1")}

DetailSamples ==
    {None,
     Some(PhaseDetailsNew),
     Some([PhaseDetailsNew EXCEPT
             !.deploy_details = Some(DeployDetails("uuid-1", "staging"))])}

LoadedRecords ==
    {[New("uuid-0", c, "1.0.0", "developer1", "t0") EXCEPT
         !.phase = p, !.state = s, !.phase_details = d] :
       c \in Components, p \in SDLCPhase, s \in StateSamples, d \in DetailSamples}

InitLoaded ==
    /\ record \in LoadedRecords
    /\ last = [op |-> "init", res |-> Ok]
    /\ okOps = <<>>
    /\ repeat = FALSE
    /\ PolicyIdle

\* A record that entered the program in any shape, driven through the same
\* methods and followed for MaxLoadedSteps successful transitions (and any
\* number of failed calls).  The record of SDLCRelease::new is one of them.
Followed == Len(okOps) < MaxLoadedSteps

NextLoaded ==
    \/ Followed /\ AddDependency
    \/ Followed /\ AddPhaseAttestation
    \/ Followed /\ StartDevelopment
    \/ Followed /\ CompleteDevelopment
    \/ Followed /\ StartSourceReview
    \/ Followed /\ \E commit_hash \in Hashes : CompleteSourceReview(commit_hash)
    \/ Followed /\ StartBuild
    \/ Followed /\ CompleteBuild
    \/ Followed /\ StartPackaging
    \/ Followed /\ CompletePackaging
    \/ Followed /\ Release
    \/ Followed /\ \E environment \in Envs : StartDeployment(environment)
    \/ Followed /\ CompleteDeployment
    \/ Followed /\ Revoke
    \/ Followed /\ Validate

SpecLoaded == InitLoaded /\ [][NextLoaded]_vars

\* ------------------------------------------------- policy evaluation
\* Rules, signers and durations a policy and an attestation are built from.
DurationSamples == {0, 1, ChronoMaxSecs + 1}
IdentitySamples == {<<>>, <<"trusted_developer">>, <<"release_bot", "trusted_developer">>}
Signers == {"trusted_developer", "mallory"}
RuleSamples ==
    {MaxAge(d) : d \in DurationSamples}
    \cup {ApprovedIdentities(ids) : ids \in IdentitySamples \ {<<>>}}
    \cup {RequiredClaims([k \in {"reviewed"} |-> "yes"]),
          VulnerabilityThreshold("High", 0)}

InitPolicy ==
    /\ record = New("uuid-0", [kind |-> "Project", name |-> "Test Project"],
                    "1.0.0", "developer1", "t0")
    /\ last = [op |-> "init", res |-> Ok]
    /\ okOps = <<>>
    /\ repeat = FALSE
    /\ PolicyInit
    /\ DeployedInit

AddRule ==
    /\ Len(policy.rules) < MaxRules
    /\ \E rule \in RuleSamples : policy' = add_rule(policy, rule)
    /\ verdict' = NoVerdict
    /\ UNCHANGED attestation
    /\ UNCHANGED nonPolicyVars

AddSignature ==
    /\ Len(attestation.signatures) < MaxSigs
    /\ \E signer \in Signers :
          attestation' = add_signature(attestation, signer, "signature123")
    /\ verdict' = NoVerdict
    /\ UNCHANGED policy
    /\ UNCHANGED nonPolicyVars

\* Mutant: the check stamps the attestation with the instant it read.
CheckPolicy_TouchesAttestation ==
    /\ \E now \in 0..MaxClock :
          /\ verdict' = [check |-> "check_policy", now |-> now,
                         passes |-> check_policy(policy, attestation, now)]
          /\ attestation' = [attestation EXCEPT !.timestamp = now]
    /\ UNCHANGED policy
    /\ UNCHANGED nonPolicyVars

\* check_policy(&policy, &attestation), reading the clock once per MaxAge rule;
\* the instants read within one call are taken to be equal.
CheckPolicy ==
    /\ \E now \in 0..MaxClock :
          verdict' = [check |-> "check_policy", now |-> now,
                      passes |-> check_policy(policy, attestation, now)]
    /\ UNCHANGED <<policy, attestation>>
    /\ UNCHANGED nonPolicyVars

NextPolicy ==
    \/ AddRule
    \/ AddSignature
    \/ CheckPolicy

\* A policy and an attestation built by their methods and checked against
\* each other.
SpecPolicy == InitPolicy /\ [][NextPolicy]_vars

\* ------------------------------------------------- runtime evaluation
\* Rules and findings a runtime policy and a deployed release are built from.
RuntimeRuleSamples ==
    {VulnerabilityThreshold("High", 0),
     VulnerabilityThreshold("High", 1),
     VulnerabilityThreshold("Medium", 0),
     MaxAge(0),
     ApprovedIdentities(<<"trusted_developer">>),
     RequiredClaims([k \in {"reviewed"} |-> "yes"])}
VulnSamples ==
    {Vulnerability("CVE-2023-12345", "High", "Critical vulnerability detected", 0),
     Vulnerability("CVE-2023-00001", "Low", "Minor finding", 0)}
AppliesToSamples == {<<"Runtime">>, <<"Source", "Build">>}

InitRuntime ==
    /\ record = New("uuid-0", [kind |-> "Project", name |-> "Test Project"],
                    "1.0.0", "developer1", "t0")
    /\ last = [op |-> "init", res |-> Ok]
    /\ okOps = <<>>
    /\ repeat = FALSE
    /\ policy \in {PolicyNew("uuid-8", "Runtime Policy", a) : a \in AppliesToSamples}
    /\ attestation =
          AttestationNew("uuid-6",
                         [type_ |-> "Artifact", name |-> "app-1.0.0.jar",
                          digest |-> "sha256:1234567890abcdef"],
                         EmptyMap, 0)
    /\ verdict = NoVerdict
    /\ DeployedInit

AddRuntimeRule ==
    /\ Len(policy.rules) < MaxRules
    /\ \E rule \in RuntimeRuleSamples : policy' = add_rule(policy, rule)
    /\ verdict' = NoVerdict
    /\ UNCHANGED <<attestation, deployed>>
    /\ UNCHANGED <<releaseVars, accessVars, nsVars, storeVars>>

\* update_release_vulnerabilities(release, vec![vulnerability]); the verdict
\* of an earlier check stays what it was.
UpdateReleaseVulnerabilities ==
    /\ Len(deployed.state_info.vulnerabilities) < MaxVulns
    /\ \E vulnerability \in VulnSamples :
          deployed' = update_release_vulnerabilities(deployed, <<vulnerability>>)
    /\ UNCHANGED policyVars
    /\ UNCHANGED <<releaseVars, accessVars, nsVars, storeVars>>

\* The owner of the release takes one finding out of the pub Vec.
RemoveVulnerability ==
    /\ \E i \in DOMAIN deployed.state_info.vulnerabilities :
          deployed' = [deployed EXCEPT !.state_info.vulnerabilities =
                          SubSeq(@, 1, i - 1) \o SubSeq(@, i + 1, Len(@))]
    /\ UNCHANGED policyVars
    /\ UNCHANGED <<releaseVars, accessVars, nsVars, storeVars>>

\* check_runtime_policy(&policy, &release); `on` keeps the findings the
\* verdict was computed on.
CheckRuntimePolicy ==
    /\ verdict' = [check |-> "check_runtime_policy",
                   on |-> deployed.state_info.vulnerabilities,
                   passes |-> check_runtime_policy(policy, deployed)]
    /\ UNCHANGED <<policy, attestation, deployed>>
    /\ UNCHANGED <<releaseVars, accessVars, nsVars, storeVars>>

NextRuntime ==
    \/ AddRuntimeRule
    \/ UpdateReleaseVulnerabilities
    \/ RemoveVulnerability
    \/ CheckRuntimePolicy

\* A runtime policy built by its methods and checked against a deployed
\* release whose findings come and go.
SpecRuntime == InitRuntime /\ [][NextRuntime]_vars

\* ------------------------------------------- transitions beside evaluation
\* A release driven through its transitions while a policy is evaluated, again
\* and again, against an attestation and against a deployed release.  The
\* policy limits the age to zero and forbids High findings; the deployed
\* release carries one.
InitGated ==
    /\ record \in {New("uuid-0", c, "1.0.0", "developer1", "t0") : c \in Components}
    /\ last = [op |-> "init", res |-> Ok]
    /\ okOps = <<>>
    /\ repeat = FALSE
    /\ policy = add_rule(add_rule(PolicyNew("uuid-5", "Security Policy",
                                            <<"Source", "Build">>),
                                  MaxAge(0)),
                         VulnerabilityThreshold("High", 0))
    /\ attestation =
          AttestationNew("uuid-6",
                         [type_ |-> "Artifact", name |-> "app-1.0.0.jar",
                          digest |-> "sha256:1234567890abcdef"],
                         EmptyMap, 0)
    /\ verdict = NoVerdict
    /\ deployed =
          update_release_vulnerabilities(
              TypedNew("uuid-7", [kind |-> "Unmanaged", name |-> "Unmanaged Component"],
                       "1.0.0", "integrator1", 0),
              <<Vulnerability("CVE-2023-12345", "High",
                              "Critical vulnerability detected", 0)>>)
    /\ AccessInit
    /\ NamespaceInit
    /\ StoreInit

NextGated ==
    \/ StartDevelopment
    \/ CompleteDevelopment
    \/ StartSourceReview
    \/ \E commit_hash \in Hashes : CompleteSourceReview(commit_hash)
    \/ StartBuild
    \/ CompleteBuild
    \/ StartPackaging
    \/ CompletePackaging
    \/ Release
    \/ \E environment \in Envs : StartDeployment(environment)
    \/ CompleteDeployment
    \/ Revoke
    \/ CheckPolicy
    \/ CheckRuntimePolicy

SpecGated == InitGated /\ [][NextGated]_vars

\* ------------------------------------------------- directory calls
\* Paths and queries the directory is called with.
PathSamples ==
    {<<"a", "/", "b", "/", "c">>,
     <<"a", "/", "b", "/", "d">>,
     <<"a", "/", "b">>,
     <<"a">>,
     <<"a", "/", "c", "b">>,
     <<"x", "/", "y">>,
     <<"/", "x", "/", "/", "y", "/">>,
     <<"/">>,
     <<"/", "/">>,
     <<>>}
QuerySamples == {<<>>, <<"b">>, <<"c", "b">>, <<"a", "/", "b">>, <<"z">>}

\* The Vecs a HashMap's key set can be collected into.
Orders(keys) ==
    {order \in [1..Cardinality(keys) -> keys] :
        \A i, j \in DOMAIN order : order[i] = order[j] => i = j}

\* The frame of a call on the directory.
DirectoryOnly ==
    UNCHANGED <<releaseVars, policyVars, deployed, accessVars, arcVars, storeVars>>

CreateNamespace ==
    /\ \E path \in PathSamples :
          LET out == create_namespace(root, path)
          IN  /\ root' = out.root
              /\ answer' = [op |-> "create_namespace", path |-> path, res |-> out.res]
    /\ DirectoryOnly

ListNamespaces ==
    /\ \E path \in PathSamples :
          LET out == list_namespaces(root, path)
          IN  \E order \in Orders(out.keys) :
                 answer' = [op |-> "list_namespaces", path |-> path, res |-> out.res,
                            val |-> order]
    /\ UNCHANGED root
    /\ DirectoryOnly

DeleteNamespace ==
    /\ \E path \in PathSamples :
          LET out == delete_namespace(root, path)
          IN  /\ root' = out.root
              /\ answer' = [op |-> "delete_namespace", path |-> path, res |-> out.res]
    /\ DirectoryOnly

SearchNamespaces ==
    /\ \E query \in QuerySamples :
          \E results \in search_namespaces(root, query) :
              answer' = [op |-> "search_namespaces", query |-> query, res |-> Ok,
                         val |-> results]
    /\ UNCHANGED root
    /\ DirectoryOnly

DrillDown ==
    /\ \E path \in PathSamples :
          LET out == drill_down(root, path)
          IN  answer' = [op |-> "drill_down", path |-> path, res |-> out.res,
                         node |-> out.node]
    /\ UNCHANGED root
    /\ DirectoryOnly

InitNamespace ==
    /\ record = New("uuid-0", [kind |-> "Project", name |-> "Test Project"],
                    "1.0.0", "developer1", "t0")
    /\ last = [op |-> "init", res |-> Ok]
    /\ okOps = <<>>
    /\ repeat = FALSE
    /\ PolicyIdle

NextNamespace ==
    \/ CreateNamespace
    \/ ListNamespaces
    \/ DeleteNamespace
    \/ SearchNamespaces
    \/ DrillDown

\* An InMemoryNamespaceManager from new(), called through its five methods.
SpecNamespace == InitNamespace /\ [][NextNamespace]_vars

\* ------------------------------------------------- held subtrees
\* Paths the directory of shared nodes is called with.
SharedPaths == {<<"a">>, <<"/", "a", "/", "b">>, <<"/">>}

NotDirectory == UNCHANGED <<releaseVars, policyVars, deployed, accessVars, storeVars>>

\* create_namespace, as long as there is room for the nodes it may allocate:
\* a clone of the root and a clone or a new node for each part.
CreateShared ==
    /\ \E path \in SharedPaths :
          /\ Cardinality(FreeAddrs(heap)) > Len(parse_path(path))
          /\ LET out == create_namespace_arc(heap, rootAt, path)
             IN  /\ heap' = out.heap
                 /\ rootAt' = out.root
                 /\ root' = create_namespace(root, path).root
                 /\ answer' = [op |-> "create_namespace", path |-> path, res |-> out.res]
    /\ UNCHANGED held
    /\ NotDirectory

\* delete_namespace, as long as there is room for the clones it may make.
DeleteShared ==
    /\ \E path \in SharedPaths :
          /\ Cardinality(FreeAddrs(heap)) >= Len(parse_path(path))
          /\ LET out == delete_namespace_arc(heap, rootAt, path)
             IN  /\ heap' = out.heap
                 /\ rootAt' = out.root
                 /\ root' = delete_namespace(root, path).root
                 /\ answer' = [op |-> "delete_namespace", path |-> path, res |-> out.res]
    /\ UNCHANGED held
    /\ NotDirectory

\* drill_down: the reader keeps the Arc it is given.
DrillDownShared ==
    /\ Len(held) < MaxHeld
    /\ \E path \in SharedPaths :
          LET out == drill_down_arc(heap, rootAt, path)
          IN  /\ heap' = out.heap
              /\ held' = IF out.res.ok
                         THEN Append(held, [at |-> out.at, node |-> deref(heap, out.at)])
                         ELSE held
              /\ answer' = [op |-> "drill_down", path |-> path, res |-> out.res,
                            node |-> IF out.res.ok THEN deref(heap, out.at)
                                     ELSE NamespaceNew]
    /\ UNCHANGED <<root, rootAt>>
    /\ NotDirectory

\* A reader lets go of a subtree it held.
DropHeld ==
    /\ \E i \in DOMAIN held :
          /\ heap' = Arc_drop(heap, held[i].at)
          /\ held' = SubSeq(held, 1, i - 1) \o SubSeq(held, i + 1, Len(held))
    /\ UNCHANGED <<root, answer, rootAt>>
    /\ NotDirectory

NextShared ==
    \/ CreateShared
    \/ DeleteShared
    \/ DrillDownShared
    \/ DropHeld

\* The directory with its nodes in shared allocations, readers holding what
\* drill_down gave them across later writes.
SpecShared == InitNamespace /\ [][NextShared]_vars

\* ------------------------------------------------- store calls
\* The attestations the store is given: two ids, two attestations for each.
StoreSamples ==
    {AttestationNew(id, [type_ |-> "Artifact", name |-> name,
                          digest |-> "sha256:1234567890abcdef"], EmptyMap, 0) :
        id \in {"uuid-8", "uuid-9"}, name \in {"app-1.0.0.jar", "app-1.0.1.jar"}}

StoreOnly == UNCHANGED <<releaseVars, policyVars, deployed, accessVars, nsVars>>

\* A task calls store_attestation and waits at self.attestations.write().
StoreCall(t) ==
    /\ calls[t].pc \in {"idle", "done"}
    /\ Len(stored) + Cardinality({u \in Tasks : calls[u].pc \in {"write", "insert"}})
          < MaxStores
    /\ \E a \in StoreSamples :
          calls' = [calls EXCEPT ![t] = [pc |-> "write", op |-> "store_attestation",
                                         arg |-> a]]
    /\ UNCHANGED <<attestations, rwlock, stored>>
    /\ StoreOnly

\* A task calls get_attestation and waits at self.attestations.read().
GetCall(t) ==
    /\ calls[t].pc \in {"idle", "done"}
    /\ \E id \in {"uuid-8", "uuid-9"} :
          calls' = [calls EXCEPT ![t] = [pc |-> "read", op |-> "get_attestation",
                                         arg |-> id]]
    /\ UNCHANGED <<attestations, rwlock, stored>>
    /\ StoreOnly

\* write().await returns: nobody writes, nobody reads.
AcquireWrite(t) ==
    /\ calls[t].pc = "write"
    /\ rwlock = [writer |-> 0, readers |-> {}]
    /\ rwlock' = [rwlock EXCEPT !.writer = t]
    /\ calls' = [calls EXCEPT ![t].pc = "insert"]
    /\ UNCHANGED <<attestations, stored>>
    /\ StoreOnly

\* read().await returns: nobody writes.
AcquireRead(t) ==
    /\ calls[t].pc = "read"
    /\ rwlock.writer = 0
    /\ rwlock' = [rwlock EXCEPT !.readers = @ \cup {t}]
    /\ calls' = [calls EXCEPT ![t].pc = "get"]
    /\ UNCHANGED <<attestations, stored>>
    /\ StoreOnly

\* The body of store_attestation; the guard is dropped on return.
StoreInsert(t) ==
    /\ calls[t].pc = "insert"
    /\ LET out == store_attestation(attestations, calls[t].arg)
       IN  /\ attestations' = out.map
           /\ calls' = [calls EXCEPT ![t] = [pc |-> "done", op |-> "store_attestation",
                                              arg |-> calls[t].arg, res |-> out.res]]
    /\ stored' = Append(stored, calls[t].arg)
    /\ rwlock' = [rwlock EXCEPT !.writer = 0]
    /\ StoreOnly

\* The body of get_attestation; the guard is dropped on return.
GetRead(t) ==
    /\ calls[t].pc = "get"
    /\ LET out == get_attestation(attestations, calls[t].arg)
       IN  calls' = [calls EXCEPT ![t] = [pc |-> "done", op |-> "get_attestation",
                                          arg |-> calls[t].arg, res |-> out.res,
                                          val |-> out.val]]
    /\ rwlock' = [rwlock EXCEPT !.readers = @ \ {t}]
    /\ UNCHANGED <<attestations, stored>>
    /\ StoreOnly

NextStore ==
    \E t \in Tasks :
        \/ StoreCall(t)
        \/ GetCall(t)
        \/ AcquireWrite(t)
        \/ AcquireRead(t)
        \/ StoreInsert(t)
        \/ GetRead(t)

\* An InMemoryAttestationService from new(), called by the tasks at once.
SpecStore == InitNamespace /\ [][NextStore]_vars

\* ------------------------------------------------- calls by name
\* The twelve transition methods, and the outcomes of one method on a record
\* over every argument it can be given.
Ops ==
    {"start_development", "complete_development", "start_source_review",
     "complete_source_review", "start_build", "complete_build",
     "start_packaging", "complete_packaging", "release", "start_deployment",
     "complete_deployment", "revoke"}

Outcomes(op, r) ==
    CASE op = "start_development" ->
           {start_development(r, a, f, t) : a \in Actors, f \in FeatureLists, t \in Times}
      [] op = "complete_development" -> {complete_development(r)}
      [] op = "start_source_review" ->
           {start_source_review(r, a, t) : a \in Actors, t \in Times}
      [] op = "complete_source_review" ->
           {complete_source_review(r, h) : h \in Hashes}
      [] op = "start_build" -> {start_build(r, a, t) : a \in Actors, t \in Times}
      [] op = "complete_build" ->
           {complete_build(r, b, t) : b \in BuildIds, t \in Times}
      [] op = "start_packaging" ->
           {start_packaging(r, a, t) : a \in Actors, t \in Times}
      [] op = "complete_packaging" ->
           {complete_packaging(r, h, u, t) :
               h \in ArtifactHashes, u \in ArtifactUrls, t \in Times}
      [] op = "release" -> {release(r, n, t) : n \in Notes, t \in Times}
      [] op = "start_deployment" ->
           {start_deployment(r, e, d, t) : e \in Envs, d \in Uuids, t \in Times}
      [] op = "complete_deployment" -> {complete_deployment(r, t) : t \in Times}
      [] op = "revoke" -> {revoke(r, x, t) : x \in Reasons, t \in Times}

Pair(r) == <<r.phase, r.state.name>>

\* The "From" column of the transition table.
FromMatches(op, r) ==
    CASE op = "start_development" -> Pair(r) = <<Development, "Draft">>
      [] op = "complete_development" -> Pair(r) = <<Development, "InProgress">>
      [] op = "start_source_review" -> Pair(r) = <<Source, "Draft">>
      [] op = "complete_source_review" -> Pair(r) = <<Source, "InProgress">>
      [] op = "start_build" -> Pair(r) = <<Build, "Draft">>
      [] op = "complete_build" -> Pair(r) = <<Build, "InProgress">>
      [] op = "start_packaging" -> Pair(r) = <<Package, "Draft">>
      [] op = "complete_packaging" -> Pair(r) = <<Package, "InProgress">>
      [] op = "release" -> r.state.name = "Releasable"
      [] op = "start_deployment" -> Pair(r) = <<Deploy, "Released">>
      [] op = "complete_deployment" -> Pair(r) = <<Deploy, "InProgress">>
      [] op = "revoke" -> r.state.name = "Deployed"

\* ------------------------------------------------- exclusive access
\* The fields of the record in the order a method's body assigns them once
\* its guard has passed.
WriteOrder(op) ==
    CASE op \in {"start_development", "start_deployment"} -> <<"state", "phase_details">>
      [] op = "complete_development" -> <<"phase", "state", "phase_details">>
      [] op = "complete_source_review" ->
           <<"commit_hash", "phase_details", "phase", "state">>
      [] op \in {"complete_build", "complete_packaging"} ->
           <<"phase_details", "phase", "state">>
      [] op = "complete_deployment" -> <<"phase", "state">>
      [] OTHER -> <<"state">>

\* A writer asks for one transition of the record.
Request(w) ==
    /\ reqs[w].pc = "idle"
    /\ \E op \in Ops : reqs' = [reqs EXCEPT ![w] = [pc |-> "waiting", op |-> op]]
    /\ UNCHANGED <<lock, seen, stable>>
    /\ UNCHANGED <<releaseVars, policyVars, deployed, nsVars, storeVars>>

\* The writer gets the record to itself (&mut self) and the method is
\* entered: its arguments are fixed and its guard is read.
Acquire(w) ==
    /\ reqs[w].pc = "waiting"
    /\ lock = 0
    /\ lock' = w
    /\ \E out \in Outcomes(reqs[w].op, record) :
          reqs' = [reqs EXCEPT ![w] =
                      [pc |-> "running", op |-> reqs[w].op, pre |-> record,
                       ticket |-> Cardinality({v \in Writers : reqs[v].pc = "done"}),
                       out |-> out,
                       k |-> IF out.rec = record THEN Len(WriteOrder(reqs[w].op)) + 1
                             ELSE 1]]
    /\ UNCHANGED <<seen, stable>>
    /\ UNCHANGED <<releaseVars, policyVars, deployed, nsVars, storeVars>>

\* The next assignment of the method's body.
Assign(w) ==
    /\ reqs[w].pc = "running"
    /\ reqs[w].k <= Len(WriteOrder(reqs[w].op))
    /\ LET f == WriteOrder(reqs[w].op)[reqs[w].k]
       IN  record' = [record EXCEPT ![f] = reqs[w].out.rec[f]]
    /\ reqs' = [reqs EXCEPT ![w].k = @ + 1]
    /\ UNCHANGED <<last, okOps, repeat>>
    /\ UNCHANGED <<lock, seen, stable>>
    /\ UNCHANGED <<policyVars, deployed, nsVars, storeVars>>

\* The method returns and the writer gives the record up.  `stable` follows
\* the record when the transition has committed (Ok).
Return(w) ==
    /\ reqs[w].pc = "running"
    /\ reqs[w].k > Len(WriteOrder(reqs[w].op))
    /\ lock' = 0
    /\ reqs' = [reqs EXCEPT ![w] =
                   [pc |-> "done", op |-> reqs[w].op, pre |-> reqs[w].pre,
                    ticket |-> reqs[w].ticket, res |-> reqs[w].out.res]]
    /\ stable' = IF reqs[w].out.res.ok THEN record ELSE stable
    /\ last' = [op |-> reqs[w].op, res |-> reqs[w].out.res]
    /\ okOps' = IF reqs[w].out.res.ok THEN Append(okOps, reqs[w].op) ELSE okOps
    /\ repeat' = (last.op = reqs[w].op /\ last.res.ok)
    /\ UNCHANGED <<record, seen>>
    /\ UNCHANGED <<policyVars, deployed, nsVars, storeVars>>

\* A reader (&self) reads the record while no writer has it.
Observe ==
    /\ lock = 0
    /\ seen' = record
    /\ UNCHANGED <<lock, reqs, stable>>
    /\ UNCHANGED <<releaseVars, policyVars, deployed, nsVars, storeVars>>

InitConcurrent ==
    /\ record \in LoadedRecords
    /\ last = [op |-> "init", res |-> Ok]
    /\ okOps = <<>>
    /\ repeat = FALSE
    /\ PolicyIdle

NextConcurrent ==
    \/ \E w \in Writers : Request(w)
    \/ \E w \in Writers : Acquire(w)
    \/ \E w \in Writers : Assign(w)
    \/ \E w \in Writers : Return(w)
    \/ Observe

\* A record that entered the program in any shape, two writers racing for
\* one transition each and a reader beside them.
SpecConcurrent == InitConcurrent /\ [][NextConcurrent]_vars

\* =================================================================== claims
\* C1: a transition method called on a record whose (phase, status) is not
\* the method's "From" pair returns an error and leaves every field of the
\* record as it was, for every method, every argument and every record.
C1_MismatchRejectedUnchanged ==
    \A op \in Ops :
        ~FromMatches(op, record) =>
            \A out \in Outcomes(op, record) : ~out.res.ok /\ out.rec = record

\* A call of start_build was rejected on a record still in Development.
C1_Witness ==
    /\ last.op = "start_build"
    /\ ~last.res.ok
    /\ record.phase = Development

\* C2 (as claimed): complete_deployment on a record in (Deploy, InProgress)
\* whose deploy detail payload is absent fails and leaves the record
\* unchanged, still in (Deploy, InProgress).
C2_MissingDetailsLeavesRecordUnchanged ==
    (/\ Pair(record) = <<Deploy, "InProgress">>
     /\ (~record.phase_details.some \/ ~record.phase_details.val.deploy_details.some))
    => \A out \in Outcomes("complete_deployment", record) :
          /\ ~out.res.ok
          /\ out.rec = record
          /\ Pair(out.rec) = <<Deploy, "InProgress">>

\* The (phase, status) pairs that appear in the transition table.
LegalPairs ==
    {<<Development, "Draft">>, <<Development, "InProgress">>,
     <<Source, "Draft">>, <<Source, "InProgress">>,
     <<Build, "Draft">>, <<Build, "InProgress">>,
     <<Package, "Draft">>, <<Package, "InProgress">>,
     <<Deploy, "Releasable">>, <<Deploy, "Released">>, <<Deploy, "InProgress">>,
     <<Runtime, "Deployed">>, <<Runtime, "Revoked">>}

Lifecycle ==
    <<"start_development", "complete_development", "start_source_review",
      "complete_source_review", "start_build", "complete_build",
      "start_packaging", "complete_packaging", "release", "start_deployment",
      "complete_deployment", "revoke">>

\* C4: the twelve methods applied in lifecycle order to a fresh record each
\* succeed, whatever their arguments, and the record ends in
\* (Runtime, Revoked).
C4_FullLifecycleEndsRevoked ==
    \A k \in 0..Len(Lifecycle) :
        okOps = SubSeq(Lifecycle, 1, k) =>
            /\ k < Len(Lifecycle) =>
                  \A out \in Outcomes(Lifecycle[k + 1], record) : out.res.ok
            /\ k = Len(Lifecycle) => Pair(record) = <<Runtime, "Revoked">>

C4_Witness ==
    /\ okOps = Lifecycle
    /\ last.op = "revoke"
    /\ last.res.ok
    /\ Pair(record) = <<Runtime, "Revoked">>

\* C5: a method that has just succeeded is rejected when it is called again
\* at once, with any arguments, and the rejected call leaves the record as the
\* first call left it.
C5_RepeatRejected ==
    /\ \A op \in Ops :
          \A out \in Outcomes(op, record) :
              out.res.ok =>
                  \A again \in Outcomes(op, out.rec) :
                      ~again.res.ok /\ again.rec = out.rec
    /\ repeat => ~last.res.ok

C5_Witness ==
    /\ repeat
    /\ last.op = "release"
    /\ ~last.res.ok
    /\ Pair(record) = <<Deploy, "Released">>

C7_PackagingStaysInPackage ==
    /\ Pair(record) = <<Package, "InProgress">> =>
          \A out \in Outcomes("complete_packaging", record) :
              out.res.ok /\ Pair(out.rec) = <<Package, "Releasable">>
    /\ Pair(record) = <<Package, "Releasable">> =>
          \A n \in Notes, t \in Times :
              LET out == release(record, n, t)
              IN  /\ out.res.ok
                  /\ out.rec.phase = Deploy
                  /\ out.rec.state.name = "Released"
                  /\ out.rec.state.release_notes = n

\* C8: complete_source_review(h) on a record in (Source, InProgress) sets
\* commit_hash to Some(h) and source_details.commit_hash to h and moves the
\* record to (Build, Draft), for every h.
C8_CompleteSourceReviewSetsCommit ==
    Pair(record) = <<Source, "InProgress">> =>
        \A h \in Hashes :
            LET out == complete_source_review(record, h)
            IN  /\ out.res.ok
                /\ out.rec.commit_hash = Some(h)
                /\ out.rec.phase_details.val.source_details = Some(SourceDetails(h))
                /\ Pair(out.rec) = <<Build, "Draft">>

C8_Witness ==
    /\ last.op = "complete_source_review"
    /\ last.res.ok
    /\ record.commit_hash = Some("def456")
    /\ Pair(record) = <<Build, "Draft">>

\* C9: commit_hash is None while the phase is Development or Source, is
\* Some(h) for the h given to complete_source_review from phase Build on, and
\* once set is never changed or cleared.
C9_CommitHashSetOnceAtSourceCompletion ==
    /\ [](record.phase \in {Development, Source} => record.commit_hash = None)
    /\ [](record.phase \in {Build, Package, Deploy, Runtime} => record.commit_hash.some)
    /\ [][\A h \in Hashes :
            (CompleteSourceReview(h) /\ last'.res.ok) => record'.commit_hash = Some(h)]_vars
    /\ [][record.commit_hash.some => record'.commit_hash = record.commit_hash]_vars

C9_Witness ==
    /\ record.phase = Runtime
    /\ record.commit_hash = Some("abc123")
    /\ "complete_build" \in {okOps[i] : i \in DOMAIN okOps}

\* C10: complete_deployment fails as long as start_deployment has not
\* succeeded on the record; right after start_deployment(env) succeeded it
\* succeeds and moves the record to (Runtime, Deployed) with environment env.
C10_CompleteDeploymentNeedsStart ==
    /\ []("start_deployment" \notin {okOps[i] : i \in DOMAIN okOps} =>
             \A out \in Outcomes("complete_deployment", record) : ~out.res.ok)
    /\ [][\A env \in Envs :
            (StartDeployment(env) /\ last'.res.ok) =>
                \A t \in Times :
                    LET out == complete_deployment(record', t)
                    IN  /\ out.res.ok
                        /\ out.rec.phase = Runtime
                        /\ out.rec.state = Deployed(env, t)]_vars
    /\ []((last.op = "complete_deployment" /\ last.res.ok) =>
             /\ Pair(record) = <<Runtime, "Deployed">>
             /\ record.state.environment =
                   record.phase_details.val.deploy_details.val.environment)

C10_Witness ==
    /\ last.op = "complete_deployment"
    /\ last.res.ok
    /\ okOps[Len(okOps) - 1] = "start_deployment"
    /\ record.state.name = "Deployed"
    /\ record.state.environment = "production"

C13_RevokeOnStatusOnly ==
    \A x \in Reasons, t \in Times :
        LET out == revoke(record, x, t)
        IN  /\ out.res.ok <=> record.state.name = "Deployed"
            /\ out.res.ok =>
                  /\ out.rec.phase = record.phase
                  /\ out.rec.state = Revoked(x, t)
                  /\ out.rec.phase_details = record.phase_details

\* revoke succeeded on a record outside Runtime.
C13_Witness ==
    /\ last.op = "revoke"
    /\ last.res.ok
    /\ record.phase = Build
    /\ record.state.name = "Revoked"

\* The phase-specific payloads of PhaseDetails, each with the position of its
\* phase in the order Development, Source, Build, Package, Deploy, Runtime.
PayloadFields ==
    {"development_details", "source_details", "build_details",
     "package_details", "deploy_details", "runtime_details"}

PayloadIndex(f) ==
    CASE f = "development_details" -> 0
      [] f = "source_details" -> 1
      [] f = "build_details" -> 2
      [] f = "package_details" -> 3
      [] f = "deploy_details" -> 4
      [] f = "runtime_details" -> 5

PhaseIndex(p) ==
    CASE p = Development -> 0
      [] p = Source -> 1
      [] p = Build -> 2
      [] p = Package -> 3
      [] p = Deploy -> 4
      [] p = Runtime -> 5

Populated(r) ==
    IF r.phase_details.some
    THEN {f \in PayloadFields : r.phase_details.val[f].some}
    ELSE {}

C15_DevelopmentStartAndComplete ==
    /\ Pair(record) = <<Development, "Draft">> =>
          \A a \in Actors, f \in FeatureLists, t \in Times :
              LET out == start_development(record, a, f, t)
              IN  /\ out.res.ok
                  /\ out.rec.phase = Development
                  /\ out.rec.state = InProgress(a, t)
                  /\ out.rec.phase_details.val.development_details =
                        Some(DevelopmentDetails(f))
    /\ Pair(record) = <<Development, "InProgress">> =>
          LET out == complete_development(record)
          IN  /\ out.res.ok
              /\ Pair(out.rec) = <<Source, "Draft">>
              /\ out.rec.phase_details.val.development_details = None
              /\ out.rec.phase_details.val.source_details = None

C15_Witness ==
    /\ okOps = <<"start_development", "complete_development">>
    /\ last.op = "complete_development"
    /\ Pair(record) = <<Source, "Draft">>
    /\ Populated(record) = {}

\* C16 (as claimed): validate() returns Ok for every (phase, status) pair
\* reachable from a fresh record and an error for every pair outside the
\* transition table.
C16_ValidateAcceptsReachablePairs ==
    /\ validate(record).ok
    /\ \A r \in LoadedRecords : Pair(r) \notin LegalPairs => ~validate(r).ok

\* C17 (as claimed): the error value of a rejected transition tells a mismatch
\* from missing details and, for a mismatch, identifies the actual
\* (phase, status) of the record: two rejections of a method with the same
\* error value were made on records of the same (phase, status).
MissingDetailsErrors == {"Deployment details missing.", "Phase details missing."}

C17_ErrorIdentifiesActualState ==
    (last.op \in Ops /\ ~last.res.ok) =>
        /\ last.res.err \in MissingDetailsErrors => last.op = "complete_deployment"
        /\ last.res.err \notin MissingDetailsErrors =>
              \A r \in LoadedRecords :
                  \A other \in Outcomes(last.op, r) :
                      (~other.res.ok /\ other.res.err = last.res.err) =>
                          Pair(r) = Pair(record)


\* ---- policy evaluation claims
Range(seq) == {seq[i] : i \in DOMAIN seq}

\* The policy holding exactly `rules`, in that order.
PolicyOf(rules) == [policy EXCEPT !.rules = rules]

\* A rule's truth in the pre-phase evidence check: RequiredClaims and
\* VulnerabilityThreshold count as true, the other two are evaluated.
RuleTrue(rule, now) ==
    IF rule.kind \in {"RequiredClaims", "VulnerabilityThreshold"}
    THEN TRUE
    ELSE check_policy_rule(rule, attestation, now)

\* C18: check_policy returns true iff every rule of the policy evaluates true
\* against the attestation, RequiredClaims and VulnerabilityThreshold rules
\* counting as true; the verdict is the same for every order of the rules, and
\* a policy with no rules passes.
C18_VerdictIsConjunctionOfRules ==
    /\ verdict.check = "check_policy" =>
          (verdict.passes <=>
              \A i \in DOMAIN policy.rules : RuleTrue(policy.rules[i], verdict.now))
    /\ \A now \in 0..MaxClock :
          /\ check_policy(policy, attestation, now) <=>
                \A i \in DOMAIN policy.rules : RuleTrue(policy.rules[i], now)
          /\ \A f \in Permutations(DOMAIN policy.rules) :
                check_policy(PolicyOf([i \in DOMAIN policy.rules |-> policy.rules[f[i]]]),
                             attestation, now)
                  = check_policy(policy, attestation, now)
          /\ check_policy(PolicyOf(<<>>), attestation, now)

\* A check of two rules is rejected on its second rule alone, the first being
\* one that counts as true.
C18_Witness ==
    /\ verdict.check = "check_policy"
    /\ Len(policy.rules) = 2
    /\ policy.rules[1].kind = "VulnerabilityThreshold"
    /\ policy.rules[2].kind = "ApprovedIdentities"
    /\ ~verdict.passes

\* C19: an ApprovedIdentities(set) rule is true against an attestation iff at
\* least one of its signatures has a signer in the set: false with no
\* signature and with every signer outside the set, true when one of several
\* signers is in the set.
C19_ApprovedIdentitiesAnySigner ==
    /\ (/\ verdict.check = "check_policy"
        /\ Len(policy.rules) = 1
        /\ policy.rules[1].kind = "ApprovedIdentities") =>
          (verdict.passes <=>
              \E i \in DOMAIN attestation.signatures :
                  attestation.signatures[i].signer \in Range(policy.rules[1].identities))
    /\ \A ids \in IdentitySamples : \A now \in 0..MaxClock :
          check_policy(PolicyOf(<<ApprovedIdentities(ids)>>), attestation, now) <=>
              \E i \in DOMAIN attestation.signatures :
                  attestation.signatures[i].signer \in Range(ids)

\* Two signatures, the first by a signer outside the set and the second by
\* one inside it: the check passes.
C19_Witness ==
    /\ verdict.check = "check_policy"
    /\ policy.rules = <<ApprovedIdentities(<<"release_bot", "trusted_developer">>)>>
    /\ Len(attestation.signatures) = 2
    /\ attestation.signatures[1].signer = "mallory"
    /\ attestation.signatures[2].signer = "trusted_developer"
    /\ verdict.passes

\* C20: a MaxAge(duration) rule is true against an attestation iff
\* now - attestation.timestamp <= duration, for every duration, those too
\* large for the signed time type included.
C20_MaxAgeComparesAgeToDuration ==
    (/\ verdict.check = "check_policy"
     /\ Len(policy.rules) = 1
     /\ policy.rules[1].kind = "MaxAge") =>
        (verdict.passes <=>
            verdict.now - attestation.timestamp <= policy.rules[1].duration)


\* ---- runtime evaluation claims
\* Low < Medium < High < Critical
SeverityRank == [l \in {"Low", "Medium", "High", "Critical"} |->
                    CASE l = "Low" -> 1 [] l = "Medium" -> 2
                      [] l = "High" -> 3 [] l = "Critical" -> 4]

\* The findings of `vulns` at or above `level`, by position.
AtLeast(vulns, level) ==
    {j \in DOMAIN vulns : SeverityRank[vulns[j].severity] >= SeverityRank[level]}

\* A rule's truth in the runtime check over the findings `vulns`.
RuntimeRuleTrue(rule, vulns) ==
    rule.kind = "VulnerabilityThreshold" =>
        Cardinality(AtLeast(vulns, rule.level)) <= rule.max_count

IsRuntimeVerdict(v) == v.check = "check_runtime_policy"

\* C21: in the runtime check on a Deployed release a
\* VulnerabilityThreshold(level, max_count) rule is true iff the number of
\* attached vulnerabilities of severity >= level is <= max_count (true with
\* none attached), and every other rule kind is true; with
\* VulnerabilityThreshold(High, 0) no finding passes, one High finding fails
\* and Low findings alone pass.
C21_ThresholdCountsSevereFindings ==
    /\ IsRuntimeVerdict(verdict) =>
          (verdict.passes <=>
              \A i \in DOMAIN policy.rules : RuntimeRuleTrue(policy.rules[i], verdict.on))
    /\ \A rule \in RuntimeRuleSamples :
          check_runtime_policy(PolicyOf(<<rule>>), deployed)
            <=> RuntimeRuleTrue(rule, deployed.state_info.vulnerabilities)
    /\ check_runtime_policy(PolicyOf(<<VulnerabilityThreshold("High", 0)>>), deployed)
         <=> \A j \in DOMAIN deployed.state_info.vulnerabilities :
                deployed.state_info.vulnerabilities[j].severity \in {"Low", "Medium"}
    /\ deployed.state_info.vulnerabilities = <<>> =>
          check_runtime_policy(policy, deployed)

\* VulnerabilityThreshold(High, 0) checked on a Low and a High finding: fails.
C21_Witness ==
    /\ IsRuntimeVerdict(verdict)
    /\ policy.rules = <<VulnerabilityThreshold("High", 0)>>
    /\ Len(verdict.on) = 2
    /\ verdict.on[1].severity = "Low"
    /\ verdict.on[2].severity = "High"
    /\ ~verdict.passes

\* Two successive runtime checks of one single-threshold policy.
ThresholdRechecked ==
    /\ IsRuntimeVerdict(verdict)
    /\ IsRuntimeVerdict(verdict')
    /\ policy' = policy
    /\ Len(policy.rules) = 1
    /\ policy.rules[1].kind = "VulnerabilityThreshold"

\* `longer` is `shorter` with one finding of severity >= level added at its end.
OneSevereAdded(shorter, longer, level) ==
    \E v \in VulnSamples :
        /\ SeverityRank[v.severity] >= SeverityRank[level]
        /\ longer = Append(shorter, v)

\* C22 as stated: on a passing VulnerabilityThreshold evaluation, adding one
\* vulnerability of severity >= level makes the evaluation fail, and
\* removing it again makes it pass.
C22_SevereFindingFlipsVerdict ==
    [][ThresholdRechecked =>
          /\ (OneSevereAdded(verdict.on, verdict'.on, policy.rules[1].level)
                /\ verdict.passes) => ~verdict'.passes
          /\ (OneSevereAdded(verdict'.on, verdict.on, policy.rules[1].level)
                /\ ~verdict.passes
                /\ Cardinality(AtLeast(verdict.on, policy.rules[1].level))
                     = policy.rules[1].max_count + 1) => verdict'.passes]_vars

\* C22: adding one vulnerability of severity >= level never turns a failing
\* VulnerabilityThreshold(level, max_count) evaluation into a passing one and
\* turns a passing one into a failing one exactly when max_count such
\* findings were attached already; removing one never turns a passing
\* evaluation into a failing one and turns a failing one into a passing one
\* exactly when max_count + 1 such findings were attached.
C22_MonotonicInEvidence ==
    [][ThresholdRechecked =>
          /\ OneSevereAdded(verdict.on, verdict'.on, policy.rules[1].level) =>
                /\ verdict'.passes => verdict.passes
                /\ verdict.passes =>
                      (~verdict'.passes <=>
                          Cardinality(AtLeast(verdict.on, policy.rules[1].level))
                            = policy.rules[1].max_count)
          /\ OneSevereAdded(verdict'.on, verdict.on, policy.rules[1].level) =>
                /\ verdict.passes => verdict'.passes
                /\ ~verdict.passes =>
                      (verdict'.passes <=>
                          Cardinality(AtLeast(verdict.on, policy.rules[1].level))
                            = policy.rules[1].max_count + 1)]_vars

\* VulnerabilityThreshold(High, 1) checked with two High findings attached:
\* fails.
C22_Witness ==
    /\ IsRuntimeVerdict(verdict)
    /\ policy.rules = <<VulnerabilityThreshold("High", 1)>>
    /\ Len(verdict.on) = 2
    /\ verdict.on[1].severity = "High"
    /\ verdict.on[2].severity = "High"
    /\ ~verdict.passes

\* C24: a policy's rules are applied only when its applies_to list names the
\* phase under evaluation: a policy whose applies_to omits Runtime does not
\* fail the runtime check on account of its rules.
C24_RulesGateOnlyListedPhases ==
    (IsRuntimeVerdict(verdict) /\ "Runtime" \notin Range(policy.applies_to))
        => verdict.passes


\* ---- evaluation beside transitions
IsPolicyVerdict(v) == v.check = "check_policy"

\* A step that evaluated a policy, and a step that called a transition.
Evaluated == verdict' # verdict
Transitioned == last' # last \/ record' # record

\* C25 as stated: evaluating a policy changes no field of the release, the
\* attestation or the policy, so that re-evaluating on unchanged inputs
\* returns the same verdict; no transition evaluates or requires a verdict.
C25_ReevaluationGivesSameVerdict ==
    [][/\ Evaluated => UNCHANGED <<record, policy, attestation, deployed>>
       /\ (IsPolicyVerdict(verdict) /\ IsPolicyVerdict(verdict')
             /\ UNCHANGED <<policy, attestation>>)
            => verdict'.passes = verdict.passes
       /\ (IsRuntimeVerdict(verdict) /\ IsRuntimeVerdict(verdict')
             /\ UNCHANGED <<policy, deployed>>)
            => verdict'.passes = verdict.passes
       /\ Transitioned =>
            /\ UNCHANGED verdict
            /\ last'.res.ok <=> FromMatches(last'.op, record)]_vars

\* C25: evaluating a policy changes no field of the release, the attestation
\* or the policy; re-evaluating the runtime check on unchanged inputs returns
\* the same verdict, and re-evaluating the pre-phase check on unchanged
\* inputs returns the same verdict at the same instant and, at a later
\* instant, never a pass after a fail; no transition evaluates or requires a
\* verdict.
C25_EvaluationApartFromTransitions ==
    [][/\ Evaluated => UNCHANGED <<record, policy, attestation, deployed>>
       /\ (IsPolicyVerdict(verdict) /\ IsPolicyVerdict(verdict')
             /\ UNCHANGED <<policy, attestation>>)
            => /\ verdict'.now = verdict.now => verdict'.passes = verdict.passes
               /\ (verdict'.now >= verdict.now /\ verdict'.passes) => verdict.passes
       /\ (IsRuntimeVerdict(verdict) /\ IsRuntimeVerdict(verdict')
             /\ UNCHANGED <<policy, deployed>>)
            => verdict'.passes = verdict.passes
       /\ Transitioned =>
            /\ UNCHANGED verdict
            /\ last'.res.ok <=> FromMatches(last'.op, record)]_vars

\* release returned Ok while the verdict in hand is a failed runtime check.
C25_Witness ==
    /\ last.op = "release"
    /\ last.res.ok
    /\ IsRuntimeVerdict(verdict)
    /\ ~verdict.passes


\* ---- exclusive access
\* Both writers have had their answer to a request for the method `op`;
\* `first` was served first and found a record the method can succeed on.
RacedFor(op, first, second) ==
    /\ first # second
    /\ reqs[first].pc = "done" /\ reqs[second].pc = "done"
    /\ reqs[first].op = op /\ reqs[second].op = op
    /\ reqs[first].ticket = 0
    /\ \E out \in Outcomes(op, reqs[first].pre) : out.res.ok

\* C26: with the transitions of one record made under exclusive access, a
\* reader only ever sees the complete state before or after a transition,
\* never a phase written without its status and details (phase Runtime with
\* status InProgress), and of two requests racing for the same operation
\* exactly one succeeds and the other is rejected.
C26_ReadersSeeWholeTransitions ==
    [][/\ seen' # seen => seen' = stable'
       /\ \A op \in Ops : \A first, second \in Writers :
             RacedFor(op, first, second)' =>
                 (reqs'[first].res.ok /\ ~reqs'[second].res.ok)]_vars


\* ---- namespace directory claims
\* The nodes of a tree, each named by the sequence of names leading to it
\* from the root; the root is <<>>.
RECURSIVE Paths(_)
Paths(node) ==
    {<<>>} \cup UNION {{<<n>> \o below : below \in Paths(node.children[n])} :
                          n \in DOMAIN node.children}

IsPrefix(short, long) ==
    Len(short) <= Len(long) /\ SubSeq(long, 1, Len(short)) = short

\* The names of the direct children of the node at `at`.
ChildNames(node, at) ==
    {full[Len(full)] : full \in {q \in Paths(node) : Len(q) = Len(at) + 1 /\ IsPrefix(at, q)}}

\* s1/s2/../sn
RECURSIVE Joined(_)
Joined(parts) ==
    IF Len(parts) = 1 THEN parts[1]
    ELSE parts[1] \o <<Slash>> \o Joined(Tail(parts))

NoDuplicates(seq) == \A i, j \in DOMAIN seq : seq[i] = seq[j] => i = j

Called(op) == answer.op = op /\ answer.res.ok

\* C27: after create_namespace(p) succeeds for p = s1/../sn every prefix
\* s1/../sk exists and what existed before still does, and list_namespaces(q)
\* for an existing q returns exactly the names of q's direct children, each
\* once: after creating a/b/c and a/b/d, list_namespaces(a/b) is {c, d}.
C27_CreateAddsPrefixesListGivesChildren ==
    /\ [][Called("create_namespace")' /\ answer' # answer =>
             Paths(root') = Paths(root) \cup
                {SubSeq(parse_path(answer'.path), 1, k) :
                    k \in 1..Len(parse_path(answer'.path))}]_vars
    /\ [](Called("list_namespaces") =>
             /\ parse_path(answer.path) \in Paths(root)
             /\ NoDuplicates(answer.val)
             /\ Range(answer.val) = ChildNames(root, parse_path(answer.path)))
    /\ [](\A path \in PathSamples :
             parse_path(path) \in Paths(root) <=> list_namespaces(root, path).res.ok)

\* list_namespaces("a/b") returned c and d.
C27_Witness ==
    /\ Called("list_namespaces")
    /\ answer.path = <<"a", "/", "b">>
    /\ Range(answer.val) = {<<"c">>, <<"d">>}

\* C28: delete_namespace(p) on an existing p removes p with its whole
\* subtree and nothing else: p and its descendants are not found afterwards,
\* every other node is as it was (after creating x/y/z and deleting x/y, x
\* exists and has no children).
C28_DeleteRemovesSubtreeOnly ==
    /\ [][answer'.op = "delete_namespace" /\ answer' # answer =>
            LET parts == parse_path(answer'.path)
            IN  IF parts # <<>> /\ parts \in Paths(root)
                THEN /\ answer'.res.ok
                     /\ Paths(root') = {q \in Paths(root) : ~IsPrefix(parts, q)}
                     /\ \A q \in Paths(root') :
                           get_node(root', q).val.name = get_node(root, q).val.name
                ELSE ~answer'.res.ok /\ root' = root]_vars
    /\ [](Called("delete_namespace") =>
            ~list_namespaces(root, answer.path).res.ok)

\* a/b was deleted from under a, which is still there and has no b.
C28_Witness ==
    /\ Called("delete_namespace")
    /\ answer.path = <<"a", "/", "b">>
    /\ <<<<"a">>>> \in Paths(root)
    /\ <<"b">> \notin ChildNames(root, <<<<"a">>>>)

\* C29: search_namespaces(q) returns, each once, the full '/'-joined path of
\* exactly the existing nodes whose own name contains q; never the root, a
\* deleted node or a node whose name does not contain q.
C29_SearchGivesMatchingPaths ==
    /\ Called("search_namespaces") =>
          /\ NoDuplicates(answer.val)
          /\ Range(answer.val) =
                {Joined(q) : q \in {h \in Paths(root) \ {<<>>} :
                    \E before, after \in 0..Len(h[Len(h)]) :
                        /\ before + Len(answer.query) + after = Len(h[Len(h)])
                        /\ SubSeq(h[Len(h)], before + 1, before + Len(answer.query))
                             = answer.query}}
          /\ Len(answer.val) =
                Cardinality({h \in Paths(root) \ {<<>>} :
                                str_contains(h[Len(h)], answer.query)})

\* A search for "b" returned a/b and a/cb, and nothing else.
C29_Witness ==
    /\ Called("search_namespaces")
    /\ answer.query = <<"b">>
    /\ Range(answer.val) = {<<"a", "/", "b">>, <<"a", "/", "c", "b">>}


\* ---- frame of the record's methods
\* The fields no transition writes, and the fields the two add_ methods
\* leave alone.
Identity(r) ==
    <<r.id, r.component, r.version, r.created_by, r.created_at,
      r.dependencies, r.phase_attestations>>
Progress(r) == <<r.phase, r.state, r.phase_details, r.commit_hash>>

\* C30: no transition method, successful or failed, changes the record's id,
\* component, version, created_by, created_at, dependencies or
\* phase_attestations; add_dependency and add_phase_attestation succeed in
\* every state (Revoked too) and change neither phase, status, phase_details
\* nor commit_hash.
C30_TransitionsAndAddsKeepTheirFrames ==
    /\ [][/\ last'.op \in Ops => Identity(record') = Identity(record)
          /\ last'.op \in {"add_dependency", "add_phase_attestation"} =>
                last'.res.ok /\ Progress(record') = Progress(record)]_vars
    /\ [](/\ \A op \in Ops : \A out \in Outcomes(op, record) :
                Identity(out.rec) = Identity(record)
          /\ \A dependency_id \in DependencyIds :
                /\ Progress(add_dependency(record, dependency_id)) = Progress(record)
                /\ add_dependency(record, dependency_id).dependencies
                     = Append(record.dependencies, dependency_id)
          /\ \A phase_name \in AttestedPhaseNames, attestation_id \in AttestationIds :
                /\ Progress(add_phase_attestation(record, phase_name, attestation_id))
                     = Progress(record)
                /\ add_phase_attestation(record, phase_name, attestation_id)
                     .phase_attestations[phase_name] = attestation_id)

\* A dependency was added to a revoked record.
C30_Witness ==
    /\ last.op = "add_dependency"
    /\ record.state.name = "Revoked"
    /\ record.dependencies # <<>>

\* ---- order of the phases
\* C31: a call of a transition method leaves the phase where it was or moves
\* it to the next phase of Development, Source, Build, Package, Deploy,
\* Runtime (never back, never past one); and on a record whose status is
\* Revoked every transition method fails and leaves the record as it was.
C31_PhaseAdvancesByOneRevokedIsTerminal ==
    [][last'.op \in Ops =>
          /\ PhaseIndex(record'.phase) \in
                {PhaseIndex(record.phase), PhaseIndex(record.phase) + 1}
          /\ record.state.name = "Revoked" =>
                /\ ~last'.res.ok
                /\ record' = record
                /\ \A op \in Ops : \A out \in Outcomes(op, record) :
                      ~out.res.ok /\ out.rec = record]_vars

\* After the whole lifecycle, revoke was called again on the revoked record.
C31_Witness ==
    /\ okOps = Lifecycle
    /\ Pair(record) = <<Runtime, "Revoked">>
    /\ last.op = "revoke"
    /\ ~last.res.ok

\* ---- one way forward
\* The methods that can return Ok on a record, for some arguments.
CanSucceed(r) == {op \in Ops : \E out \in Outcomes(op, r) : out.res.ok}

\* The (phase, status) pairs in the order the lifecycle visits them.
Chain ==
    <<<<Development, "Draft">>, <<Development, "InProgress">>,
      <<Source, "Draft">>, <<Source, "InProgress">>,
      <<Build, "Draft">>, <<Build, "InProgress">>,
      <<Package, "Draft">>, <<Package, "InProgress">>,
      <<Deploy, "Releasable">>, <<Deploy, "Released">>, <<Deploy, "InProgress">>,
      <<Runtime, "Deployed">>, <<Runtime, "Revoked">>>>

\* C32: on a record created by SDLCRelease::new, in every state it reaches,
\* at most one transition method can succeed, exactly one unless the record
\* is in (Runtime, Revoked), and the record has moved one place along the
\* chain of thirteen (phase, status) pairs for each method that succeeded.
C32_ExactlyOneMethodCanSucceed ==
    /\ Len(okOps) < Len(Chain)
    /\ Pair(record) = Chain[Len(okOps) + 1]
    /\ Cardinality(CanSucceed(record)) =
          IF Pair(record) = <<Runtime, "Revoked">> THEN 0 ELSE 1
    /\ Pair(record) # <<Runtime, "Revoked">> =>
          CanSucceed(record) = {Lifecycle[Len(okOps) + 1]}

\* In (Package, Draft) start_build, the method that had just succeeded one
\* phase earlier, was rejected.
C32_Witness ==
    /\ Pair(record) = <<Package, "Draft">>
    /\ last.op = "start_build"
    /\ ~last.res.ok
    /\ CanSucceed(record) = {"start_packaging"}

\* ---- detail payloads along the lifecycle
\* C33: on a record created by SDLCRelease::new and driven through its
\* methods, phase_details is always present; in (Deploy, InProgress),
\* (Runtime, Deployed) and (Runtime, Revoked) deploy_details is populated; no
\* call has failed, and complete_deployment cannot fail, for missing details;
\* and the environment of the Deployed status is the one in deploy_details.
C33_DetailsPresentAlongLifecycle ==
    /\ record.phase_details.some
    /\ Pair(record) \in {<<Deploy, "InProgress">>, <<Runtime, "Deployed">>,
                         <<Runtime, "Revoked">>} =>
          record.phase_details.val.deploy_details.some
    /\ ~last.res.ok => last.res.err \notin MissingDetailsErrors
    /\ \A out \in Outcomes("complete_deployment", record) :
          ~out.res.ok => out.res.err \notin MissingDetailsErrors
    /\ record.state.name = "Deployed" =>
          record.state.environment =
             record.phase_details.val.deploy_details.val.environment

\* A revoked record still carries the deploy payload of its deployment to
\* staging.
C33_Witness ==
    /\ Pair(record) = <<Runtime, "Revoked">>
    /\ record.phase_details.some
    /\ record.phase_details.val.deploy_details.some
    /\ record.phase_details.val.deploy_details.val.environment = "staging"

\* ---- path segments
\* A path made of slashes only, the empty path included.
NoSegment(path) == \A i \in DOMAIN path : path[i] = Slash

\* The same node written with extra slashes and without.
SamePlace ==
    {<<<<"/", "a", "/", "/", "b", "/">>, <<"a", "/", "b">>>>,
     <<<<"/", "x", "/", "/", "y", "/">>, <<"x", "/", "y">>>>}

\* C34: create_namespace and delete_namespace on a path without a non-empty
\* segment ("", "/", "//") return InvalidPath and leave the tree as it was;
\* "/a//b/" and "a/b" address the same node in create, list and delete; and
\* every node below the root has a non-empty name without '/', which is its
\* key in its parent's children.
C34_SegmentsNeverEmpty ==
    /\ [][(/\ answer'.op \in {"create_namespace", "delete_namespace"}
           /\ answer' # answer
           /\ NoSegment(answer'.path)) =>
              answer'.res = Err("InvalidPath") /\ root' = root]_vars
    /\ [](\A path \in PathSamples :
             NoSegment(path) <=>
                /\ create_namespace(root, path) = [root |-> root, res |-> Err("InvalidPath")]
                /\ delete_namespace(root, path) = [root |-> root, res |-> Err("InvalidPath")])
    /\ [](\A pair \in SamePlace :
             /\ create_namespace(root, pair[1]) = create_namespace(root, pair[2])
             /\ delete_namespace(root, pair[1]) = delete_namespace(root, pair[2])
             /\ list_namespaces(root, pair[1]) = list_namespaces(root, pair[2]))
    /\ [](\A q \in Paths(root) \ {<<>>} :
             LET node == get_node(root, q).val
             IN  /\ node.name = q[Len(q)]
                 /\ node.name # <<>>
                 /\ Slash \notin Range(node.name))

\* With x/y in the tree, create_namespace("//") was rejected.
C34_Witness ==
    /\ answer.op = "create_namespace"
    /\ answer.path = <<"/", "/">>
    /\ answer.res = Err("InvalidPath")
    /\ <<<<"x">>, <<"y">>>> \in Paths(root)

\* ---- paths that do not exist
\* C35: list_namespaces, drill_down and delete_namespace on a path that does
\* not lead to a node, its last or an earlier segment missing, return
\* NotFound, and the tree holds the same paths after the call as before.
C35_MissingPathIsNotFound ==
    /\ [][(/\ answer'.op \in {"list_namespaces", "drill_down", "delete_namespace"}
           /\ answer' # answer
           /\ parse_path(answer'.path) \notin Paths(root)) =>
              /\ answer'.res = Err("NotFound")
              /\ Paths(root') = Paths(root)
              /\ root' = root]_vars
    /\ [](\A path \in PathSamples :
             parse_path(path) \notin Paths(root) =>
                /\ list_namespaces(root, path).res = Err("NotFound")
                /\ drill_down(root, path).res = Err("NotFound")
                /\ delete_namespace(root, path) = [root |-> root, res |-> Err("NotFound")])
    /\ [](\A path \in PathSamples :
             parse_path(path) \in Paths(root) =>
                /\ list_namespaces(root, path).res.ok
                /\ drill_down(root, path).res.ok)

\* drill_down("a/b/c") was rejected in a tree that has a but no a/b.
C35_Witness ==
    /\ answer.op = "drill_down"
    /\ answer.path = <<"a", "/", "b", "/", "c">>
    /\ answer.res = Err("NotFound")
    /\ <<<<"a">>>> \in Paths(root)
    /\ <<<<"a">>, <<"b">>>> \notin Paths(root)

\* ---- creating what exists
\* C36: create_namespace on a path that already leads to a node (an earlier
\* create of that path or of a longer one made it) returns Ok, never
\* AlreadyExists, and leaves the whole tree, the node's children included, as
\* it was; creating the same path twice gives what creating it once gives.
C36_CreateIsIdempotent ==
    /\ [][(/\ answer'.op = "create_namespace"
           /\ answer' # answer
           /\ parse_path(answer'.path) \in Paths(root) \ {<<>>}) =>
              answer'.res = Ok /\ root' = root]_vars
    /\ [](\A path \in PathSamples :
             LET once == create_namespace(root, path)
                 twice == create_namespace(once.root, path)
             IN  /\ twice = once
                 /\ once.res \in {Ok, Err("InvalidPath")}
                 /\ parse_path(path) \in Paths(root) \ {<<>>} =>
                       once = [root |-> root, res |-> Ok])

\* create_namespace("a/b") returned Ok in a tree that already held a/b/c.
C36_Witness ==
    /\ Called("create_namespace")
    /\ answer.path = <<"a", "/", "b">>
    /\ <<<<"a">>, <<"b">>, <<"c">>>> \in Paths(root)

\* ---- held subtrees
\* The Arcs that lead to a cell: from children maps, from the directory and
\* from readers.
Refs(at) ==
    Cardinality({<<a, n>> \in Addrs \X UNION {DOMAIN heap[a].children : a \in Addrs} :
                    /\ heap[a].strong > 0
                    /\ n \in DOMAIN heap[a].children
                    /\ heap[a].children[n] = at})
    + Cardinality({i \in DOMAIN held : held[i].at = at})
    + (IF rootAt = at THEN 1 ELSE 0)

\* C37: a subtree returned by drill_down shows the names and children it
\* showed when it was returned, whatever create_namespace and delete_namespace
\* calls come later, on any path: a write clones every node that another Arc
\* also leads to before changing it, and the directory itself shows the
\* result of the writes.
C37_HeldSubtreeIsASnapshot ==
    /\ [](\A i \in DOMAIN held :
              /\ heap[held[i].at].strong > 0
              /\ deref(heap, held[i].at) = held[i].node)
    /\ [][(answer'.op \in {"create_namespace", "delete_namespace"} /\ held' = held) =>
              \A i \in DOMAIN held :
                  deref(heap', held[i].at) = deref(heap, held[i].at)]_vars
    /\ [](deref(heap, rootAt) = root)
    /\ [](\A at \in Addrs : heap[at].strong = Refs(at))

\* A reader holds node a with its child b, taken before a/b was deleted from
\* the directory.
C37_Witness ==
    /\ held # <<>>
    /\ held[1].node.name = <<"a">>
    /\ DOMAIN held[1].node.children = {<<"b">>}
    /\ answer.op = "delete_namespace"
    /\ answer.res.ok
    /\ <<<<"a">>>> \in Paths(root)
    /\ <<<<"a">>, <<"b">>>> \notin Paths(root)

\* ---- attestation store
\* The attestation inserted last under an id, None when none was.
LastStored(log, id) ==
    IF \E i \in DOMAIN log : log[i].id = id
    THEN Some(log[CHOOSE i \in DOMAIN log :
                     log[i].id = id /\ \A j \in DOMAIN log : log[j].id = id => j <= i])
    ELSE None

\* C38: whatever the interleaving of the tasks' store_attestation and
\* get_attestation calls, a get_attestation(id) returns Ok with the
\* attestation inserted last under id at the moment it reads, Ok(None) when
\* none has been inserted; an insert under one id leaves what is held under
\* the other ids, and an insert under a held id replaces what was held.
C38_GetReturnsLastStored ==
    /\ [][\A t \in Tasks :
             (calls[t].pc = "get" /\ calls'[t].pc = "done") =>
                /\ calls'[t].res = Ok
                /\ calls'[t].val = LastStored(stored, calls[t].arg)]_vars
    /\ [][\A t \in Tasks :
             (calls[t].pc = "insert" /\ calls'[t].pc = "done") =>
                /\ calls'[t].res = Ok
                /\ attestations'[calls[t].arg.id] = calls[t].arg
                /\ \A id \in DOMAIN attestations :
                      /\ id \in DOMAIN attestations'
                      /\ id # calls[t].arg.id => attestations'[id] = attestations[id]]_vars
    /\ [](\A id \in {"uuid-8", "uuid-9"} :
             get_attestation(attestations, id).val = LastStored(stored, id))
    /\ [](rwlock.writer # 0 => rwlock.readers = {})

\* A task read the second attestation stored under uuid-8 while the store
\* also held one under uuid-9.
C38_Witness ==
    \E t \in Tasks :
        /\ calls[t].pc = "done"
        /\ calls[t].op = "get_attestation"
        /\ calls[t].arg = "uuid-8"
        /\ calls[t].val.some
        /\ calls[t].val.val.subject.name = "app-1.0.1.jar"
        /\ Len(stored) = 3
        /\ stored[1].id = "uuid-8" /\ stored[1].subject.name = "app-1.0.0.jar"
        /\ stored[2].id = "uuid-9"
        /\ stored[3] = calls[t].val.val

====
